---- MODULE Spec2Model ----
(***************************************************************************)
(* Raid polling engine of raid-bot (src/index.js): the scraper semaphore   *)
(* withSlot, the per-raid poll with exponential backoff (pollOneRaid), the *)
(* single-flight cycle (pollLoop), the jittered scheduler and the /raid    *)
(* and /cancel command handlers.                                           *)
(*                                                                         *)
(* Every action is one run of JavaScript between two suspension points     *)
(* that wait for I/O (browser, Telegram, timers): such a run is atomic in  *)
(* Node's event loop.  Time is the value Date.now() returns, in ms.        *)
(***************************************************************************)
EXTENDS Integers, Sequences, FiniteSets, TLC

\* ------------------------------------------------------------------------
\* Program constants
\* ------------------------------------------------------------------------
CONCURRENCY == 2
POLL_MS == 30000
MIN_BACKOFF == 30000
JITTER == 5000
\* const decayWindowMs = 3600000 and .slice(0, 15) of postTrending
DecayWindowMs == 3600000
TOP == 15
MAX_BACKOFF == 600000

\* ------------------------------------------------------------------------
\* Bounds of the model
\* ------------------------------------------------------------------------
\* callers of withSlot beside the poll loop, in the semaphore specifications
NCallers == 4
\* raids started over a run (entries ever inserted into the raids Map)
MaxRaids == 2
\* /raid handlers in flight at the same time
MaxCmds == 1
\* advances of the clock
MaxTicks == 1
\* non-skipped polls of one raid
MaxPolls == 2
\* completion records kept for one group
MaxRecords == 2
\* the same three bounds where a single raid is followed (SoloSpec)
SoloTicks == 5
SoloPolls == 6
SoloRecords == 1
\* non-skipped polls of the raid where its progress notices are followed (PaceSpec)
PacePolls == 12
\* non-skipped polls of one raid, and pages left open that are counted, where the
\* command replies and the pages are followed (TraceSpec)
TracePolls == 1
MaxPages == 1
\* raids started over a run with a second caller of pollLoop (ReentrySpec)
ReentryRaids == 1
\* groups with a history where the leaderboard is computed (BoardSpec): one more
\* than the leaderboard shows
NGroups == 16
\* non-skipped polls where the delays of the scheduler are followed (SchedSpec)
SchedPolls == 2
\* advances of the clock and non-skipped polls where the error results of a
\* single raid are followed (RetrySpec)
RetryTicks == 2
RetryPolls == 3
\* polls counted, failed fetches in a row and advances of the clock where the
\* cycles are followed without end (FairSpec)
FairPolls == 1
FairFails == 1
FairTicks == 1

VARIABLES
  inFlight,     \* let inFlight: callers between inFlight++ and inFlight--
  queue,        \* const queue: resolvers of the callers waiting for a slot
  woken,        \* resolvers already called whose continuation has not run yet,
                \* in the order of the calls (the order their continuations run in)
  arrivals,     \* the resolvers ever pushed to queue, in that order (not program state)
  cl,           \* position of each free-standing withSlot caller
  now,          \* Date.now()
  ticks,        \* advances of the clock so far
  raidObj,      \* the RaidState objects ever created, in creation order
  live,         \* the objects that are values of the raids Map (by index)
  stats,        \* stats[chatId]: the completion records of a group
  cmds,         \* /raid handlers suspended at an await
  polling,      \* let polling: the single-flight lock of pollLoop
  timer,        \* the calls of scheduler that are due: setTimeout(scheduler, ...) pending
  delay,        \* the delay the pending timer was set with (0: none, or the first call)
  jitter,       \* const JITTER, as POLL_JITTER_MS sets it
  pc,           \* position of each pollLoop invocation
  it,           \* its Map iterator: index of the entry visited last
  cur,          \* the raid its pollOneRaid works on
  loc,          \* locals of its pollOneRaid / fetchMetrics
  sessionRefreshing,  \* let sessionRefreshing
  recovering,   \* ensureSessionLoggedIn calls started by a poll and not settled
  pages,        \* pages a fetch attempt opened that are open though it has ended
  statsFile,    \* the file STATS_FILE
  groupLinks,   \* groupLinks[chatId]: the invite link of a group
  linksFile,    \* the file GROUP_LINKS_FILE
  posted,       \* const summary of the postTrending call made last (BoardSpec)
  raw,          \* the argument of the parseCount call made last (ParseSpec)
  parsed,       \* what that call returned
  login,        \* the ensureSessionLoggedIn call of the start (LoginSpec)
  hist          \* history of each raid object (not program state)

slotVars == <<inFlight, queue, woken, arrivals>>
pureVars == <<posted, raw, parsed>>
startVars == <<login, jitter>>
storeVars == <<statsFile, groupLinks, linksFile, pureVars, startVars>>
raidVars == <<raidObj, live, stats, hist, storeVars>>
loopVars == <<polling, timer, delay, pc, it, cur, loc>>
sessVars == <<sessionRefreshing, recovering, pages>>
clockVars == <<now, ticks>>
vars == <<inFlight, queue, woken, arrivals, cl, now, ticks, raidObj, live, stats, cmds,
          polling, timer, delay, jitter, pc, it, cur, loc, sessionRefreshing,
          recovering, pages, statsFile, groupLinks, linksFile, posted, raw, parsed, login, hist>>

FnCallers == 1 .. NCallers

\* The two callers of pollLoop: the scheduler (src/index.js:755-760) and a
\* second trigger issued while a cycle is in progress.
Scheduler == 1
Trigger == 2
Pollers == {Scheduler, Trigger}

Chats == {"g1", "g2"}

\* targets given to /raid: { likes, replies, retweets }
TargetChoices == {[likes |-> 10, replies |-> 2, retweets |-> 5]}

\* counts the three buttons of the scraped page can show (after parseCount)
Reads == {[likes |-> 0, replies |-> 0, retweets |-> 0],
          [likes |-> 1, replies |-> 0, retweets |-> 0],
          [likes |-> 4, replies |-> 1, retweets |-> 3],
          [likes |-> 8, replies |-> 2, retweets |-> 5],
          [likes |-> 10, replies |-> 2, retweets |-> 5]}

\* e.message of an exception that is not a TimeoutError: possibly empty
Messages == {"", "net::ERR_FAILED"}

\* what one attemptOnce can meet once its page is open
Outcomes == [kind : {"read"}, m : Reads, msg : {""}]
            \cup [kind : {"loginWall", "timeout"}, m : {[likes |-> 0, replies |-> 0, retweets |-> 0]}, msg : {""}]
            \cup [kind : {"exception"}, m : {[likes |-> 0, replies |-> 0, retweets |-> 0]}, msg : Messages]

Min(a, b) == IF a <= b THEN a ELSE b
Max(a, b) == IF a >= b THEN a ELSE b

\* message_id of a status message: Telegram numbers the messages; the model names
\* a status message by the raid it was sent for and that raid's pollCount at the
\* send (0 for the start message), which is as distinct as the number
MsgId(r, n) == [raid |-> r, poll |-> n]
NoMsg == MsgId(0, 0)

\* no metrics: what the error result of fetchMetrics carries (likes: 0, ...)
NoRead == [likes |-> 0, replies |-> 0, retweets |-> 0]

\* first: first.err; res: the metrics of the result; phrases: the phrase set
\* chosen; sent: the message awaited; history of the latest result: was, the
\* raid's backoffMs when it arrived; err, its res.err; second, second.err; busy,
\* sessionRefreshing when it arrived (first, second, err and busy of an error
\* result are kept until the loop takes its next step)
NoLoc == [first |-> "", res |-> NoRead, phrases |-> "", sent |-> NoMsg, was |-> 0,
          second |-> "", err |-> "", busy |-> FALSE]

\* clock advances the model lets happen between two steps
TickSteps == {POLL_MS}


\* ------------------------------------------------------------------------
\* withSlot (src/index.js:33-46)
\* ------------------------------------------------------------------------
\* a mutation of SlotFull: the comparison admits one caller too many
SlotFullOffByOne(n) == n > CONCURRENCY

\* if (inFlight >= CONCURRENCY)
SlotFull(n) == n >= CONCURRENCY

\* the resolver of a free-standing caller, as stored in queue
FnResolver(c) == [kind |-> "fn", id |-> c]

\* a mutation of QueueShift: the resolver pushed last is taken
QueuePop(q) == [next |-> q[Len(q)], rest |-> SubSeq(q, 1, Len(q) - 1)]

\* a mutation of QueueShift: the queue is emptied, one resolver is called
QueueClear(q) == [next |-> Head(q), rest |-> <<>>]

\* queue.shift() of a queue that is not empty
QueueShift(q) == [next |-> Head(q), rest |-> Tail(q)]

\* await new Promise(res => queue.push(res))
SlotEnqueue(r) == /\ queue' = Append(queue, r)
                  /\ arrivals' = Append(arrivals, r)
                  /\ UNCHANGED <<inFlight, woken>>

\* inFlight++  (the caller goes on to run fn)
SlotEnter == /\ inFlight' = inFlight + 1
             /\ UNCHANGED <<queue, arrivals>>

\* finally { inFlight--; const next = queue.shift(); if (next) next(); }
SlotRelease == /\ inFlight' = inFlight - 1
               /\ IF queue = <<>>
                    THEN UNCHANGED <<queue, woken>>
                    ELSE /\ queue' = QueueShift(queue).rest
                         /\ woken' = Append(woken, QueueShift(queue).next)
               /\ UNCHANGED arrivals

engineVars == <<now, ticks, raidObj, live, stats, storeVars, cmds, polling, timer, delay,
                pc, it, cur, loc, sessionRefreshing, recovering, pages, hist>>

\* A caller invokes withSlot(fn): it runs synchronously up to its first await.
FnCall(c) ==
  /\ cl[c] = "idle"
  /\ IF SlotFull(inFlight)
       THEN /\ SlotEnqueue(FnResolver(c))
            /\ cl' = [cl EXCEPT ![c] = "waiting"]
       ELSE /\ SlotEnter
            /\ UNCHANGED woken
            /\ cl' = [cl EXCEPT ![c] = "running"]
  /\ UNCHANGED engineVars

\* The continuation of a woken waiter runs: inFlight++, then fn().  The
\* continuations of resolved promises run in the order of the resolutions.
FnResume(c) ==
  /\ cl[c] = "waiting"
  /\ woken # <<>>
  /\ FnResolver(c) = Head(woken)
  /\ woken' = Tail(woken)
  /\ SlotEnter
  /\ cl' = [cl EXCEPT ![c] = "running"]
  /\ UNCHANGED engineVars

\* fn() settles (resolves or rejects): the finally block releases the slot.
FnSettle(c) ==
  /\ cl[c] = "running"
  /\ SlotRelease
  /\ \E how \in {"resolved", "rejected"} : cl' = [cl EXCEPT ![c] = how]
  /\ UNCHANGED engineVars

Running == {c \in FnCallers : cl[c] = "running"}
Launched == {c \in FnCallers : cl[c] # "idle"}
Settled == {c \in FnCallers : cl[c] \in {"resolved", "rejected"}}

\* ------------------------------------------------------------------------
\* Pure functions of pollOneRaid and fetchMetrics
\* ------------------------------------------------------------------------
\* a mutation of NextBackoff: the cap of 10 minutes is not applied
NextBackoffNoCap(prev) == Max(MIN_BACKOFF, IF prev # 0 THEN prev * 2 ELSE MIN_BACKOFF)

\* Math.min(Math.max(30000, prev ? prev * 2 : 30000), 10 * 60 * 1000)
NextBackoff(prev) ==
  Min(Max(MIN_BACKOFF, IF prev # 0 THEN prev * 2 ELSE MIN_BACKOFF), MAX_BACKOFF)

\* a mutation of AfterError: the error path also marks the delay notice as given
AfterErrorMarksDelay(raid) ==
  [raid EXCEPT !.backoffMs = NextBackoff(@), !.delayNotified = TRUE]

\* const prev = raid.backoffMs || 0; raid.backoffMs = Math.min(...); return;
AfterError(raid) == [raid EXCEPT !.backoffMs = NextBackoff(@)]

\* a mutation of Skips: no raid is ever in its backoff window
SkipsNothing(raid, t) == FALSE

\* a mutation of Skips: the time since the last attempt is not consulted
SkipsWhileBackoff(raid, t) == raid.backoffMs # 0

\* if (raid.backoffMs && now - raid.lastAttempt < raid.backoffMs) return;
Skips(raid, t) == raid.backoffMs # 0 /\ t - raid.lastAttempt < raid.backoffMs

\* a mutation of BackoffAfterSuccess: the backoff is kept
BackoffKept(prev) == prev

\* raid.backoffMs = 0
BackoffAfterSuccess(prev) == 0

\* const done = L >= LT && R >= RT && T >= TT
IsDone(m, t) == m.likes >= t.likes /\ m.replies >= t.replies /\ m.retweets >= t.retweets

\* LT || 1
OrOne(n) == IF n = 0 THEN 1 ELSE n

\* the average of the three ratios, a zero target counted as 1, is at least
\* 50% in exact arithmetic (cleared of its denominators)
HalfwayExact(m, t) ==
  LET a == OrOne(t.likes)
      b == OrOne(t.replies)
      c == OrOne(t.retweets)
  IN  2 * (m.likes * b * c + m.replies * a * c + m.retweets * a * b) >= 3 * a * b * c

\* the significand of a double
Precision == 53

\* ------------------------------------------------------------------------
\* Number arithmetic of the progress average (src/index.js:716): IEEE 754
\* doubles, every operation rounded to the nearest value of 53 significant
\* bits, ties to even.  A value is a sequence of Limbs digits of base 2^16,
\* most significant first, the first digit before the point; the values the
\* average meets (counts and targets below 2^16, their quotients, sums and
\* multiples) lie on this grid.
\* ------------------------------------------------------------------------
Base == 2^16
Limbs == 1 + 4
Bits == 16 * Limbs

\* the natural number n
FromNat(n) == [k \in 1..Limbs |-> IF k = 1 THEN n ELSE 0] \o <<>>

\* bit i of a value, counted from the most significant one
Bit(b1, i) == (b1[(i - 1) \div 16 + 1] \div 2^(15 - ((i - 1) % 16))) % 2

\* the position of the leading one, Bits + 1 for zero
Lead(l1) ==
  IF \A k \in 1..Limbs : l1[k] = 0
    THEN Bits + 1
    ELSE LET top == CHOOSE k \in 1..Limbs : l1[k] # 0 /\ \A j \in 1..(k - 1) : l1[j] = 0
             high == CHOOSE b \in 0..15 : 2^b <= l1[top] /\ l1[top] < 2^(b + 1)
         IN  16 * (top - 1) + (16 - high)

\* a1 + a2, exact: the digits from digit at down, with the carry
RECURSIVE AddFrom(_, _, _, _, _)
AddFrom(a1, a2, at, carry, sum) ==
  IF at = 0
    THEN sum
    ELSE AddFrom(a1, a2, at - 1, (a1[at] + a2[at] + carry) \div Base,
                 <<(a1[at] + a2[at] + carry) % Base>> \o sum)

AddBits(a3, a4) == AddFrom(a3, a4, Limbs, 0, <<>>)

\* m1 * f for a small natural f, exact
RECURSIVE MulFrom(_, _, _, _, _)
MulFrom(m1, f, at, carry, prod) ==
  IF at = 0
    THEN prod
    ELSE MulFrom(m1, f, at - 1, (m1[at] * f + carry) \div Base,
                 <<(m1[at] * f + carry) % Base>> \o prod)

MulSmall(m2, f) == MulFrom(m2, f, Limbs, 0, <<>>)

\* d1 / d for a natural d that is not 0: the digits of the quotient down to
\* the last one, and the remainder left there
RECURSIVE DivFrom(_, _, _, _, _)
DivFrom(d1, d, at, r, quot) ==
  IF at > Limbs
    THEN [bits |-> quot, rem |-> r]
    ELSE DivFrom(d1, d, at + 1, (r * Base + d1[at]) % d,
                 Append(quot, (r * Base + d1[at]) \div d))

DivSmall(d2, d) == DivFrom(d2, d, 1, 0, <<>>)

\* the bits of r1 down to position last
Kept(r1, last) ==
  [k \in 1..Limbs |->
     IF 16 * k <= last THEN r1[k]
     ELSE IF 16 * (k - 1) >= last THEN 0
     ELSE (r1[k] \div 2^(16 * k - last)) * 2^(16 * k - last)] \o <<>>

\* one unit at position last
Ulp(last) ==
  [k \in 1..Limbs |->
     IF 16 * (k - 1) < last /\ last <= 16 * k THEN 2^(16 * k - last) ELSE 0] \o <<>>

\* the double nearest to the exact value r2 (plus a rest below the last
\* position when sticky), ties to even
RoundBits(r2, sticky) ==
  LET last == Lead(r2) + Precision - 1 IN
  IF last >= Bits
    THEN r2
    ELSE LET rest == sticky \/ \E i \in (last + 2)..Bits : Bit(r2, i) = 1
             up == Bit(r2, last + 1) = 1 /\ (rest \/ Bit(r2, last) = 1)
         IN  IF up THEN AddBits(Kept(r2, last), Ulp(last)) ELSE Kept(r2, last)

\* a / b of two naturals, b not 0
NumDiv(a, b) ==
  LET qd == DivSmall(FromNat(a), b) IN RoundBits(qd.bits, qd.rem # 0)

\* u + v of two doubles
NumAdd(u, v) == RoundBits(AddBits(u, v), FALSE)

\* w / 3
NumThird(w) ==
  LET qt == DivSmall(w, 3) IN RoundBits(qt.bits, qt.rem # 0)

\* z * 100
NumTimes100(z) == RoundBits(MulSmall(z, 100), FALSE)

\* g1 >= g2
NumGeq(g1, g2) ==
  \/ g1 = g2
  \/ \E k \in 1..Limbs : g1[k] > g2[k] /\ \A j \in 1..(k - 1) : g1[j] = g2[j]

\* const avg = ((L / (LT || 1)) + (R / (RT || 1)) + (T / (TT || 1))) / 3 * 100
Avg(m, t) ==
  NumTimes100(NumThird(NumAdd(NumAdd(NumDiv(m.likes, OrOne(t.likes)),
                                     NumDiv(m.replies, OrOne(t.replies))),
                              NumDiv(m.retweets, OrOne(t.retweets)))))

\* avg >= 50
AvgAtLeast50(m, t) == NumGeq(Avg(m, t), FromNat(50))

\* targets and counts of the runs where the halfway notice is followed
\* (HalfSpec): an average of exactly 50%, and one of 93%
HalfTargets == {[likes |-> 2, replies |-> 3, retweets |-> 3],
                [likes |-> 10, replies |-> 2, retweets |-> 5]}
HalfReads == {[likes |-> 1, replies |-> 2, retweets |-> 1],
              [likes |-> 8, replies |-> 2, retweets |-> 5],
              [likes |-> 0, replies |-> 1, retweets |-> 0],
              [likes |-> 10, replies |-> 3, retweets |-> 5]}
HalfOutcomes == [kind : {"read"}, m : HalfReads, msg : {""}]
                \cup [kind : {"loginWall"}, m : {[likes |-> 0, replies |-> 0, retweets |-> 0]}, msg : {""}]

\* avg >= 50 for the counts and targets of the model (the comparison is
\* evaluated once for each pair)
HalfwayTable ==
  [p \in (Reads \cup HalfReads) \X (TargetChoices \cup HalfTargets) |->
     AvgAtLeast50(p[1], p[2])] @@ <<>>

\* !raid.halfwayNotified && avg >= 50: the second operand
HalfwayReached(m, t) == HalfwayTable[<<m, t>>]

\* a mutation of DelayReached: the threshold itself counts
DelayReachedAtThreshold(pollCount) == pollCount * POLL_MS >= 300000

\* raid.pollCount * POLL_MS > 300000
DelayReached(pollCount) == pollCount * POLL_MS > 300000

\* a mutation of PhraseChoice: the flags are not consulted
PhraseChoiceRepeats(raid, m) ==
  IF HalfwayReached(m, raid.targets)
    THEN "halfway"
    ELSE IF DelayReached(raid.pollCount) THEN "delay" ELSE "update"

\* a mutation of PhraseChoice: the delay notice is tried before the halfway notice
PhraseChoiceDelayFirst(raid, m) ==
  IF ~raid.delayNotified /\ DelayReached(raid.pollCount)
    THEN "delay"
    ELSE IF ~raid.halfwayNotified /\ HalfwayReached(m, raid.targets)
           THEN "halfway"
           ELSE "update"

\* the phrase set of a progress update, and the flags after choosing it
PhraseChoice(raid, m) ==
  IF ~raid.halfwayNotified /\ HalfwayReached(m, raid.targets)
    THEN "halfway"
    ELSE IF ~raid.delayNotified /\ DelayReached(raid.pollCount)
           THEN "delay"
           ELSE "update"

\* a mutation of AttemptResult: an all-zero read is returned as metrics
AttemptResultAcceptsZero(o) ==
  CASE o.kind = "loginWall" -> [err |-> "LOGIN_WALL", m |-> o.m]
    [] o.kind = "timeout"   -> [err |-> "TIMEOUT", m |-> o.m]
    [] o.kind = "exception" -> [err |-> IF o.msg # "" THEN o.msg ELSE "ERROR", m |-> o.m]
    [] o.kind = "read"      -> [err |-> "", m |-> o.m]

\* what attemptOnce returns for an outcome: { err } or { likes, replies, retweets }
AttemptResult(o) ==
  CASE o.kind = "loginWall" -> [err |-> "LOGIN_WALL", m |-> o.m]
    [] o.kind = "timeout"   -> [err |-> "TIMEOUT", m |-> o.m]
    [] o.kind = "exception" -> [err |-> IF o.msg # "" THEN o.msg ELSE "ERROR", m |-> o.m]
    [] o.kind = "read"      ->
         IF o.m.likes = 0 /\ o.m.replies = 0 /\ o.m.retweets = 0
           THEN [err |-> "ZERO_READ", m |-> o.m]
           ELSE [err |-> "", m |-> o.m]

\* a mutation of ErrType: the desktop attempt's error comes first
ErrTypeFirstWins(first, second) ==
  IF first # "" THEN first ELSE IF second # "" THEN second ELSE "ERROR"

\* const errType = second.err || first.err || 'ERROR'
ErrType(first, second) ==
  IF second # "" THEN second ELSE IF first # "" THEN first ELSE "ERROR"

\* the object raids.set(chatId, {...}) stores
NewRaid(chat, targets, t) ==
  [chat |-> chat, targets |-> targets, startTime |-> t, statusMessageId |-> NoMsg,
   pollCount |-> 0, halfwayNotified |-> FALSE, delayNotified |-> FALSE,
   backoffMs |-> 0, lastAttempt |-> 0]

\* history of a raid object: fails, the error results of fetchMetrics since its
\* last success; skipped, its latest visit by the loop was a skip; canceledInFetch,
\* /cancel removed it while a fetch for it was in flight; polled, a fetch for it
\* was started in the cycle of pollLoop that began last
NewHist == [fails |-> 0, skipped |-> FALSE, canceledInFetch |-> FALSE, polled |-> FALSE]

\* { score, time }: score = sumTargets / Math.max(durationSec, 1), kept as the
\* exact fraction sum * 1000 / Max(durationMs, 1000)
CompletionRecord(raid, r, t) ==
  [sum |-> raid.targets.likes + raid.targets.replies + raid.targets.retweets,
   dur |-> Max(t - raid.startTime, 1000), time |-> t, raid |-> r]

\* a mutation of PushRecord: the new record replaces the sequence
PushRecordAlone(records, rec) == <<rec>>

\* stats[chatId].push(...)
PushRecord(records, rec) == Append(records, rec)

\* typeof entry === 'number': a legacy entry is the score alone, an entry
\* without the field time
IsNumber(entry) == "time" \notin DOMAIN entry

\* JSON.stringify(stats, null, 2): of the text the model keeps what JSON.parse
\* reads back from it, for each group the score and the time of its records in
\* their order (the numbers of a record are finite: sum and dur are integers)
StatsText(doc) ==
  [g \in DOMAIN doc |->
     [i \in DOMAIN doc[g] |->
        IF IsNumber(doc[g][i])
          THEN [sum |-> doc[g][i].sum, dur |-> doc[g][i].dur]
          ELSE [sum |-> doc[g][i].sum, dur |-> doc[g][i].dur, time |-> doc[g][i].time]]]

\* a file that does not exist (fs.existsSync is false): the document loaded is {}
NoFile(empty) == [exists |-> FALSE, text |-> empty]

\* a mutation of SaveStats: only the record appended last is written for a group
SaveStatsIncremental(doc) ==
  [exists |-> TRUE,
   text |-> StatsText([g \in DOMAIN doc |->
                         IF doc[g] = <<>> THEN <<>> ELSE <<doc[g][Len(doc[g])]>>])]

\* saveStats(): fs.writeFileSync replaces the content of the file by the text
\* of the whole document
SaveStats(doc) == [exists |-> TRUE, text |-> StatsText(doc)]

\* saveGroupLinks(): the links are strings, which JSON reads back as written
SaveGroupLinks(doc) == [exists |-> TRUE, text |-> doc]

\* the text after /setgrouplink, trimmed: head is its first characters up to
\* the third slash, tail the rest; NoLink is the empty text
NoLink == [head |-> "", tail |-> ""]
LinkChoices == {NoLink,
                [head |-> "http://t.me/", tail |-> "a"],
                [head |-> "https://t.me/", tail |-> "a"],
                [head |-> "https://telegram.me/", tail |-> "b"]}

\* link.startsWith('https://t.me/') || link.startsWith('https://telegram.me/')
ValidLink(link) == link.head \in {"https://t.me/", "https://telegram.me/"}

\* ------------------------------------------------------------------------
\* The start: ensureBrowser, ensureSessionLoggedIn and performLogin
\* ------------------------------------------------------------------------
\* login.pc is the await the start stands at; creds, email and totp say whether
\* X_USERNAME and X_PASSWORD, X_EMAIL, and X_TOTP_SECRET with otplib are set;
\* home and form say whether the page of ensureSessionLoggedIn and the page of
\* performLogin are open; ret is what performLogin is about to return and ok
\* how it settled; res and result are the same for ensureSessionLoggedIn.
Started == [pc |-> "ready", creds |-> FALSE, email |-> FALSE, totp |-> FALSE,
            home |-> FALSE, form |-> FALSE, ret |-> "none", ok |-> "none",
            res |-> "none", result |-> "true"]
AtStart(creds, email, totp) ==
  [pc |-> "start", creds |-> creds, email |-> email, totp |-> totp,
   home |-> FALSE, form |-> FALSE, ret |-> "none", ok |-> "none",
   res |-> "none", result |-> "none"]

\* what an awaited call can do: resolve or reject (a timeout is a rejection)
Settles == {"ok", "throws"}
\* newPage: browser.newPage() rejects, or it resolves and a configuration call
\* rejects, or all resolve
PageSettles == {"ok", "throws", "configThrows"}
\* isLoginWall: true, false, or page.evaluate rejects
WallSettles == {"wall", "noWall", "throws"}

\* the steps of performLogin inside its try that end the login with false when
\* they reject, in their order
LoginStepAfter(at) ==
  CASE at = "pl_goto" -> "pl_user"
    [] at = "pl_user" -> "pl_confirm"
    [] at = "pl_password" -> "pl_totp"

\* performLogin is about to return v: finally { try { await page.close(); } catch {} }
LoginReturns(v) == [login EXCEPT !.pc = "pl_close", !.ret = v]
\* ensureSessionLoggedIn is about to return v: finally { ... page.close() ... }
SessionReturns(l, v) == [l EXCEPT !.pc = "es_close", !.res = v]
\* performLogin has settled with v, which ensureSessionLoggedIn awaits inside
\* its try: const ok = await performLogin(); return ok; and catch: return false
LoginSettled(l, v) ==
  SessionReturns([l EXCEPT !.ok = v, !.ret = "none"], IF v = "true" THEN "true" ELSE "false")

\* ------------------------------------------------------------------------
\* parseCount
\* ------------------------------------------------------------------------
\* A text is a sequence of characters, each a string; a~ and o~ stand for the
\* letters a and o with a tilde, e' for e with an acute accent.
DigitChars == <<"0", "1", "2", "3", "4", "5", "6", "7", "8", "9">>
IsDigit(c) == \E i \in DOMAIN DigitChars : DigitChars[i] = c
DigitVal(c) == (CHOOSE i \in DOMAIN DigitChars : DigitChars[i] = c) - 1
IsSpace(c) == c \in {" ", "\t"}

\* String.prototype.toLowerCase, on the letters the texts use
Lower(c) == CASE c = "K" -> "k" [] c = "M" -> "m" [] c = "B" -> "b"
              [] c = "I" -> "i" [] c = "L" -> "l" [] OTHER -> c
ToLowerCase(t) == [i \in DOMAIN t |-> Lower(t[i])]

\* String.prototype.trim
RECURSIVE TrimStart(_)
TrimStart(t) == IF t # <<>> /\ IsSpace(t[1]) THEN TrimStart(Tail(t)) ELSE t
RECURSIVE TrimEnd(_)
TrimEnd(t) ==
  IF t # <<>> /\ IsSpace(t[Len(t)]) THEN TrimEnd(SubSeq(t, 1, Len(t) - 1)) ELSE t
Trim(t) == TrimEnd(TrimStart(t))

\* .replace(/\s+/g, ' ')
RECURSIVE CollapseSpaces(_)
CollapseSpaces(t) ==
  IF t = <<>> THEN <<>>
  ELSE IF IsSpace(t[1]) THEN <<" ">> \o CollapseSpaces(TrimStart(t))
  ELSE <<t[1]>> \o CollapseSpaces(Tail(t))

\* the word w stands in t at position 1
StartsWith(t, w) == Len(w) <= Len(t) /\ SubSeq(t, 1, Len(w)) = w

\* .replace(/w1|w2|.../g, by): at each position the alternatives are tried in
\* their order; the text after a replacement is scanned from its end
RECURSIVE ReplaceWords(_, _, _)
ReplaceWords(t, words, by) ==
  IF t = <<>> THEN <<>>
  ELSE LET hits == {i \in DOMAIN words : StartsWith(t, words[i])}
       IN IF hits = {}
            THEN <<t[1]>> \o ReplaceWords(Tail(t), words, by)
            ELSE LET w == words[CHOOSE i \in hits : \A j \in hits : i <= j]
                 IN by \o ReplaceWords(SubSeq(t, Len(w) + 1, Len(t)), words, by)

\* /milhões|milhao|milhão|mi/g and /mil/g
MillionWords == << <<"m", "i", "l", "h", "o~", "e", "s">>,
                   <<"m", "i", "l", "h", "a", "o">>,
                   <<"m", "i", "l", "h", "a~", "o">>,
                   <<"m", "i">> >>
ThousandWords == << <<"m", "i", "l">> >>

\* .replace(/milhões|milhao|milhão|mi/g, 'm').replace(/mil/g, 'k')
NormalizeWords(t) ==
  ReplaceWords(ReplaceWords(t, MillionWords, <<"m">>), ThousandWords, <<"k">>)

\* .replace(/(\d),(\d)/g, '$1.$2')
RECURSIVE CommaToPoint(_)
CommaToPoint(t) ==
  IF t = <<>> THEN <<>>
  ELSE IF Len(t) >= 3 /\ IsDigit(t[1]) /\ t[2] = "," /\ IsDigit(t[3])
         THEN <<t[1], ".", t[3]>> \o CommaToPoint(SubSeq(t, 4, Len(t)))
         ELSE <<t[1]>> \o CommaToPoint(Tail(t))

\* the longest prefix of t made of characters that satisfy the test
RECURSIVE NumberRun(_)
NumberRun(t) ==
  IF t # <<>> /\ (IsDigit(t[1]) \/ t[1] = ".") THEN <<t[1]>> \o NumberRun(Tail(t)) ELSE <<>>
RECURSIVE DigitRun(_)
DigitRun(t) == IF t # <<>> /\ IsDigit(t[1]) THEN <<t[1]>> \o DigitRun(Tail(t)) ELSE <<>>

\* t.match(/([\d.]+)\s*([kmb])?/i): the leftmost run of digits and periods,
\* and the letter k, m or b that follows it after optional white space
Match(t) ==
  LET starts == {i \in DOMAIN t : IsDigit(t[i]) \/ t[i] = "."}
  IN IF starts = {} THEN [found |-> FALSE, num |-> <<>>, suf |-> ""]
     ELSE LET i == CHOOSE a \in starts : \A b \in starts : a <= b
              num == NumberRun(SubSeq(t, i, Len(t)))
              rest == TrimStart(SubSeq(t, i + Len(num), Len(t)))
          IN [found |-> TRUE, num |-> num,
              suf |-> IF rest # <<>> /\ Lower(rest[1]) \in {"k", "m", "b"}
                        THEN Lower(rest[1]) ELSE ""]

\* parseFloat of a run of digits and periods: digits, then optionally a period
\* and digits; NaN when no digit stands before or right after the first period
ParseFloat(run) ==
  LET int == DigitRun(run)
      after == SubSeq(run, Len(int) + 1, Len(run))
      frac == IF after # <<>> /\ after[1] = "." THEN DigitRun(Tail(after)) ELSE <<>>
  IN [nan |-> int = <<>> /\ frac = <<>>, int |-> int, frac |-> frac]

\* n *= 1e3, 1e6 or 1e9, in decimal digits: the point moves e places to the right
RECURSIVE Zeros(_)
Zeros(n) == IF n = 0 THEN <<>> ELSE <<"0">> \o Zeros(n - 1)
Exponent(suf) == CASE suf = "k" -> 3 [] suf = "m" -> 6 [] suf = "b" -> 9 [] OTHER -> 0
Scale(v, e) ==
  LET frac == v.frac \o Zeros(Max(0, e - Len(v.frac)))
  IN [nan |-> v.nan, int |-> v.int \o SubSeq(frac, 1, e),
      frac |-> SubSeq(frac, e + 1, Len(frac))]

\* digits of a whole number without leading zeros, and of its successor
RECURSIVE StripZeros(_)
StripZeros(ds) == IF Len(ds) > 1 /\ ds[1] = "0" THEN StripZeros(Tail(ds))
                  ELSE IF ds = <<>> THEN <<"0">> ELSE ds
RECURSIVE Succ(_)
Succ(ds) ==
  IF ds = <<>> THEN <<"1">>
  ELSE IF ds[Len(ds)] = "9" THEN Succ(SubSeq(ds, 1, Len(ds) - 1)) \o <<"0">>
  ELSE SubSeq(ds, 1, Len(ds) - 1) \o <<DigitChars[DigitVal(ds[Len(ds)]) + 2]>>

\* Math.round of a number that is not negative: halves go up, NaN stays NaN
Round(v) ==
  [nan |-> v.nan,
   digits |-> IF v.nan THEN <<>>
              ELSE IF v.frac # <<>> /\ DigitVal(v.frac[1]) >= 5
                     THEN StripZeros(Succ(v.int))
                     ELSE StripZeros(v.int)]

\* a returned whole number
Whole(ds) == [nan |-> FALSE, digits |-> StripZeros(ds)]

\* function parseCount(raw)
ParseCount(text) ==
  IF text = <<>> THEN Whole(<<>>)
  ELSE LET t == CommaToPoint(NormalizeWords(CollapseSpaces(ToLowerCase(Trim(text)))))
           m == Match(t)
       IN IF ~m.found
            THEN Whole(SelectSeq(t, IsDigit))
            ELSE Round(Scale(ParseFloat(m.num), Exponent(m.suf)))

\* the value of the digits of a whole number below 2^31
RECURSIVE NatOf(_)
NatOf(ds) == IF ds = <<>> THEN 0
             ELSE 10 * NatOf(SubSeq(ds, 1, Len(ds) - 1)) + DigitVal(ds[Len(ds)])

\* no parseCount call has returned
NotParsed == [yes |-> FALSE, nan |-> FALSE, digits |-> <<>>]

\* The texts parseCount is applied to: what stands before the number, the
\* number, the space after it, the suffix or word, and a description
TextHeads == {<<>>, <<" ">>, <<"v", ".", " ">>, <<"-">>}
TextNumbers == {<<>>, <<"4", "5">>, <<"1", ".", "2">>, <<"3", ",", "4">>, <<".", "5">>,
                <<".">>, <<"2">>, <<"0">>, <<"1", ",", "2", ",", "3">>,
                <<"1", ".", "2", ".", "3">>, <<"9", ".", "9", "9">>}
TextGaps == {<<>>, <<" ">>, <<" ", "\t">>}
TextSuffixes == {<<>>, <<"k">>, <<"K">>, <<"m">>, <<"M">>, <<"b">>, <<"B">>,
                 <<"m", "i", "l">>, <<"M", "i", "l">>, <<"m", "i">>,
                 <<"m", "i", "l", "h", "a~", "o">>, <<"m", "i", "l", "h", "o~", "e", "s">>,
                 <<"m", "i", "l", "h", "a", "o">>}
TextTails == {<<>>, <<" ", "v", "i", "e", "w", "s">>}
Texts == {h \o n \o g \o x \o d :
            h \in TextHeads, n \in TextNumbers, g \in TextGaps, x \in TextSuffixes,
            d \in TextTails}

\* ------------------------------------------------------------------------
\* postTrending: the summary of the leaderboard
\* ------------------------------------------------------------------------
\* Numbers of the summary are kept as exact fractions n / d in lowest terms,
\* with n >= 0 and d > 0.
RECURSIVE Gcd(_, _)
Gcd(a, b) == IF b = 0 THEN a ELSE Gcd(b, a % b)
Frac(n, d) == [n |-> n \div Gcd(n, d), d |-> d \div Gcd(n, d)]
FracAdd(a, b) == Frac(a.n * b.d + b.n * a.d, a.d * b.d)
FracMul(a, b) == Frac(a.n * b.n, a.d * b.d)
FracEq(a, b) == a.n * b.d = b.n * a.d
FracLess(a, b) == a.n * b.d < b.n * a.d

\* score of an entry: sum / (dur / 1000) for a record, sum for a number
EntryScore(entry) == FracMul(Frac(entry.sum, 1), Frac(1000, entry.dur))

\* a mutation of DecayFactor: the window is compared with > instead of >=
DecayFactorStrict(ageMs) ==
  IF ageMs > DecayWindowMs THEN Frac(1, 2 ^ (ageMs \div DecayWindowMs)) ELSE Frac(1, 1)

\* ageMs >= decayWindowMs ? 0.5 ** (ageMs / decayWindowMs) : 1, for the ages
\* the model draws: below the window, or a whole number of windows
DecayFactor(ageMs) ==
  IF ageMs >= DecayWindowMs THEN Frac(1, 2 ^ (ageMs \div DecayWindowMs)) ELSE Frac(1, 1)

\* acc + score * decayFactor of one entry
Contribution(entry, t) ==
  LET time == IF IsNumber(entry) THEN t ELSE entry.time
  IN FracMul(EntryScore(entry), DecayFactor(t - time))

\* entries.reduce(..., 0)
RECURSIVE Total(_, _)
Total(entries, t) ==
  IF entries = <<>> THEN Frac(0, 1)
  ELSE FracAdd(Total(SubSeq(entries, 1, Len(entries) - 1), t),
               Contribution(entries[Len(entries)], t))

\* Object.entries(stats): the groups that have a key, here in the ascending
\* order of integer keys
RECURSIVE KeysUpTo(_, _)
KeysUpTo(doc, n) ==
  IF n = 0 THEN <<>>
  ELSE IF n \in DOMAIN doc /\ doc[n] # <<>>
         THEN Append(KeysUpTo(doc, n - 1), n)
         ELSE KeysUpTo(doc, n - 1)

\* a mutation of ComesFirst: ascending order
ComesFirstAscending(a, b) == FracLess(a.total, b.total)

\* (a, b) => b.total - a.total is negative: a is placed before b
ComesFirst(a, b) == FracLess(b.total, a.total)

\* Array.prototype.sort with that comparator: a stable sort, here by insertion
RECURSIVE InsertSorted(_, _)
InsertSorted(sorted, x) ==
  IF sorted = <<>> THEN <<x>>
  ELSE IF ComesFirst(x, sorted[Len(sorted)])
         THEN Append(InsertSorted(SubSeq(sorted, 1, Len(sorted) - 1), x), sorted[Len(sorted)])
         ELSE Append(sorted, x)
RECURSIVE SortTotals(_)
SortTotals(seq) ==
  IF seq = <<>> THEN <<>>
  ELSE InsertSorted(SortTotals(SubSeq(seq, 1, Len(seq) - 1)), seq[Len(seq)])

\* const summary = Object.entries(stats).map(...).sort(...).slice(0, 15)
Summary(doc, keys, t) ==
  LET totals == [i \in DOMAIN keys |-> [id |-> keys[i], total |-> Total(doc[keys[i]], t)]]
      sorted == SortTotals(totals)
  IN SubSeq(sorted, 1, Min(TOP, Len(sorted)))

\* no postTrending call has computed a summary
NotPosted == [yes |-> FALSE, summary |-> <<>>]

\* The histories the leaderboard is computed from: the stats document as loaded
\* from the file, at the instant BoardNow.  A record of age a has time
\* BoardNow - a; a number is a legacy entry.  The last group and the groups of
\* even number have one of two histories.
BoardGroups == 1 .. NGroups
BoardNow == 3 * DecayWindowMs
Aged(sum, dur, age) == [sum |-> sum, dur |-> dur, time |-> BoardNow - age]
Legacy(n) == [sum |-> n, dur |-> 1000]
HistoryOf(g, other) ==
  IF g = NGroups
    THEN IF other THEN <<>> ELSE <<Aged(17, 2000, 0)>>
    ELSE IF g % 2 = 1
      THEN IF g % 4 = 1 THEN <<Aged(40, 1000, DecayWindowMs), Legacy(3)>>
                        ELSE <<Aged(g, 1000, 1800000)>>
      ELSE IF other THEN <<Legacy(g), Aged(6, 1000, 3 * DecayWindowMs)>>
                    ELSE <<Aged(g, 1000, 2 * DecayWindowMs), Aged(17, 4000, 3599999)>>

RaidIds == 1 .. Len(raidObj)

\* A RaidState object that is no value of the Map and that no running pollOneRaid
\* holds is garbage: nothing reads it again, and the model forgets its fields.
Garbage == [chat |-> "", targets |-> [likes |-> 0, replies |-> 0, retweets |-> 0],
            startTime |-> 0, statusMessageId |-> NoMsg, pollCount |-> 0,
            halfwayNotified |-> FALSE, delayNotified |-> FALSE,
            backoffMs |-> 0, lastAttempt |-> 0]
Sweep(objs, reachable) ==
  [r \in DOMAIN objs |-> IF r \in reachable THEN objs[r] ELSE Garbage]
SweepHist(hs, reachable) ==
  [r \in DOMAIN hs |-> IF r \in reachable THEN hs[r] ELSE NewHist]
\* the objects other invocations of pollOneRaid hold
HeldBut(k) == {cur[j] : j \in Pollers \ {k}}
Held == {cur[j] : j \in Pollers}

\* a mutation of HasRaid: the Map is not consulted
HasRaidNever(chat) == FALSE

\* raids.has(chatId) / raids.get(chatId)
HasRaid(chat) == \E r \in live : raidObj[r].chat = chat
GetRaid(chat) == CHOOSE r \in live : raidObj[r].chat = chat

\* a mutation of Remaining: the iterator forgets its position
RemainingAll(k) == live

\* the Map iterator: entries are visited in insertion order, entries deleted
\* before they are reached are passed over, entries added meanwhile are reached
Remaining(k) == {r \in live : r > it[k]}
NextEntry(k) == CHOOSE r \in Remaining(k) : \A q \in Remaining(k) : r <= q

FetchPcs == {"slotWait", "desktop", "mobile"}
CompletionPcs == {"doneDel", "doneSend", "doneTrend"}
ProgressPcs == {"progDel", "progSend"}

PollResolver(k) == [kind |-> "poll", id |-> k]

Init ==
  /\ inFlight = 0
  /\ queue = <<>>
  /\ woken = <<>>
  /\ arrivals = <<>>
  /\ cl = [c \in FnCallers |-> "idle"]
  /\ now = 0
  /\ ticks = 0
  /\ raidObj = <<>>
  /\ live = {}
  /\ stats = [g \in Chats |-> <<>>]
  /\ cmds = {}
  /\ polling = FALSE
  /\ timer = 1
  /\ delay = 0
  /\ jitter = 0
  /\ pc = [k \in Pollers |-> "idle"]
  /\ it = [k \in Pollers |-> 0]
  /\ cur = [k \in Pollers |-> 0]
  /\ loc = [k \in Pollers |-> NoLoc]
  /\ sessionRefreshing = FALSE
  /\ recovering = 0
  /\ pages = 0
  /\ statsFile = NoFile(StatsText(stats))
  /\ groupLinks = [g \in Chats |-> NoLink]
  /\ linksFile = NoFile(groupLinks)
  /\ posted = NotPosted
  /\ raw = <<>>
  /\ parsed = NotParsed
  /\ login = Started
  /\ hist = <<>>

\* /setgrouplink: usage or format reply, or groupLinks[chatId] = link;
\* saveGroupLinks(); and the confirmation, whose failure is caught.
SetGroupLink(chat, link) ==
  /\ IF link = NoLink \/ ~ValidLink(link)
       THEN UNCHANGED storeVars
       ELSE /\ groupLinks' = [groupLinks EXCEPT ![chat] = link]
            /\ linksFile' = SaveGroupLinks(groupLinks')
            /\ UNCHANGED <<statsFile, pureVars, startVars>>
  /\ UNCHANGED <<slotVars, cl, clockVars, raidObj, live, stats, hist, cmds, loopVars, sessVars>>

\* ------------------------------------------------------------------------
\* The clock
\* ------------------------------------------------------------------------
Tick(d, cap) ==
  /\ ticks < cap
  /\ now' = now + d
  /\ ticks' = ticks + 1
  /\ UNCHANGED <<slotVars, cl, raidVars, cmds, loopVars, sessVars>>

\* ------------------------------------------------------------------------
\* /raid handler (src/index.js:479-539)
\* ------------------------------------------------------------------------
\* The handler first awaits bot.deleteMessage(command message), which reads and
\* writes nothing of the engine; this step is the run that follows that await:
\* raids.has, raids.set, then await bot.sendVideo(start).
RaidCommand(chat, targets, wellFormed, cap, follow) ==
  /\ IF ~wellFormed
       THEN \* if (args.length < 4) return bot.sendMessage(usage).catch(...)
            UNCHANGED <<raidVars, cmds>>
       ELSE IF HasRaid(chat)
       THEN \* if (raids.has(chatId)) return bot.sendMessage('Active raid exists');
            \* the reply is followed until it settles where follow is set
            /\ IF follow
                 THEN /\ Cardinality(cmds) < MaxCmds
                      /\ cmds' = cmds \cup {[kind |-> "refusal", chat |-> chat, sent |-> NoMsg]}
                 ELSE UNCHANGED cmds
            /\ UNCHANGED raidVars
       ELSE /\ Len(raidObj) < cap
            /\ Cardinality(cmds) < MaxCmds
            /\ raidObj' = Append(raidObj, NewRaid(chat, targets, now))
            /\ hist' = Append(hist, NewHist)
            /\ live' = {r \in live : raidObj[r].chat # chat} \cup {Len(raidObj) + 1}
            /\ cmds' = cmds \cup {[kind |-> "start", chat |-> chat,
                                    sent |-> MsgId(Len(raidObj) + 1, 0)]}
            /\ UNCHANGED <<stats, storeVars>>
  /\ UNCHANGED <<slotVars, cl, clockVars, loopVars, sessVars>>

\* the refusal's sendMessage settles: the handler ends, resolved or rejected
RefusalSettles(h) ==
  /\ h \in cmds
  /\ h.kind = "refusal"
  /\ cmds' = cmds \ {h}
  /\ UNCHANGED <<slotVars, cl, clockVars, raidVars, loopVars, sessVars>>

\* sendVideo resolved: raids.get(chatId).statusMessageId = sent.message_id
\* (a TypeError when the group has no raid any more), then the channel notice.
RaidSent(h) ==
  /\ h \in cmds
  /\ h.kind = "start"
  /\ cmds' = cmds \ {h}
  /\ IF HasRaid(h.chat)
       THEN raidObj' = [raidObj EXCEPT ![GetRaid(h.chat)].statusMessageId = h.sent]
       ELSE UNCHANGED raidObj
  /\ UNCHANGED <<slotVars, cl, clockVars, live, stats, storeVars, hist, loopVars, sessVars>>

\* sendVideo rejected: the handler ends with the rejection.
RaidSendFails(h) ==
  /\ h \in cmds
  /\ h.kind = "start"
  /\ cmds' = cmds \ {h}
  /\ UNCHANGED <<slotVars, cl, clockVars, raidVars, loopVars, sessVars>>

\* ------------------------------------------------------------------------
\* /cancel handler (src/index.js:541-548)
\* ------------------------------------------------------------------------
\* if (raids.delete(chatId)) 'Raid canceled' else 'No active raid'
Cancel(chat) ==
  /\ IF HasRaid(chat)
       THEN LET r == GetRaid(chat) IN
            /\ live' = live \ {r}
            /\ raidObj' = Sweep(raidObj, (live \ {r}) \cup Held)
            /\ hist' = SweepHist([hist EXCEPT ![r].canceledInFetch =
                                    @ \/ \E k \in Pollers : cur[k] = r /\ pc[k] \in FetchPcs],
                                 (live \ {r}) \cup Held)
       ELSE UNCHANGED <<live, raidObj, hist>>
  /\ UNCHANGED <<slotVars, cl, clockVars, stats, storeVars, cmds, loopVars, sessVars>>

\* ------------------------------------------------------------------------
\* pollLoop and scheduler (src/index.js:738-760)
\* ------------------------------------------------------------------------
\* a mutation of Declines: the lock is not consulted
DeclinesNever(p) == FALSE

\* if (polling) return;
Declines(p) == p

\* Math.random(): a number in [0, 1), here the fraction n / d
Randoms == {[n |-> 0, d |-> 1], [n |-> 1, d |-> 4], [n |-> 1, d |-> 2],
            [n |-> 9999, d |-> 10000]}

\* a mutation of NextDelay: the offset is taken over twice the jitter
NextDelayWide(rnd, j) == POLL_MS + (((rnd.n * 2 - rnd.d) * 2 * j) \div rnd.d)

\* const nextDelay = () => BASE + Math.floor((Math.random() * 2 - 1) * JITTER)
NextDelay(rnd, j) == POLL_MS + (((rnd.n * 2 - rnd.d) * j) \div rnd.d)

\* setTimeout(scheduler, ...): one more call of scheduler is due
SetTimeout(n) == n + 1

\* pollLoop() is called: by the scheduler when its timer fires, or by the
\* second trigger while a cycle is in progress.
PollLoopCall(k) ==
  /\ pc[k] \in {"idle", "declined"}
  /\ IF k = Scheduler THEN timer > 0 ELSE pc[Scheduler] # "idle"
  /\ IF Declines(polling)
       THEN \* a no-op; the scheduler's finally sets the next timer
            /\ pc' = [pc EXCEPT ![k] = "declined"]
            /\ IF k = Scheduler
                 THEN \E d \in {NextDelay(rnd, jitter) : rnd \in Randoms} : delay' = d
                 ELSE UNCHANGED delay
            /\ UNCHANGED <<polling, timer, it, hist>>
       ELSE /\ polling' = TRUE
            /\ timer' = IF k = Scheduler THEN timer - 1 ELSE timer
            /\ delay' = IF k = Scheduler THEN 0 ELSE delay
            /\ pc' = [pc EXCEPT ![k] = "loop"]
            /\ it' = [it EXCEPT ![k] = 0]
            /\ hist' = [r \in DOMAIN hist |-> [hist[r] EXCEPT !.polled = FALSE]]
  /\ UNCHANGED <<slotVars, cl, clockVars, raidObj, live, stats, storeVars, cmds, cur, loc, sessVars>>

\* The loop is left: by its end or by an exception.  finally { polling = false }
\* and the scheduler's finally { setTimeout(scheduler, nextDelay()) }.
LeaveLoop(k) ==
  /\ polling' = FALSE
  /\ timer' = IF k = Scheduler THEN SetTimeout(timer) ELSE timer
  /\ IF k = Scheduler
       THEN \E d \in {NextDelay(rnd, jitter) : rnd \in Randoms} : delay' = d
       ELSE UNCHANGED delay
  /\ pc' = [j \in Pollers |-> IF j = k \/ pc[j] = "declined" THEN "idle" ELSE pc[j]]
  /\ it' = [it EXCEPT ![k] = 0]
  /\ cur' = [cur EXCEPT ![k] = 0]
  /\ loc' = [loc EXCEPT ![k] = NoLoc]

\* pollOneRaid returns: the loop goes on to the next entry.
BackToLoop(k) ==
  /\ pc' = [pc EXCEPT ![k] = "loop"]
  /\ cur' = [cur EXCEPT ![k] = 0]
  /\ loc' = [loc EXCEPT ![k] = NoLoc]
  /\ UNCHANGED <<polling, timer, delay, it>>

\* for (const [chatId, raid] of raids.entries()): no entry is left.
PollLoopEnd(k) ==
  /\ pc[k] = "loop"
  /\ Remaining(k) = {}
  /\ LeaveLoop(k)
  /\ UNCHANGED <<slotVars, cl, clockVars, raidVars, cmds, sessVars>>

\* ------------------------------------------------------------------------
\* pollOneRaid (src/index.js:662-736)
\* ------------------------------------------------------------------------
\* The next entry is in backoff: pollOneRaid returns at once.
PollSkip(k) ==
  /\ pc[k] = "loop"
  /\ Remaining(k) # {}
  /\ Skips(raidObj[NextEntry(k)], now)
  /\ it' = [it EXCEPT ![k] = NextEntry(k)]
  /\ hist' = [hist EXCEPT ![NextEntry(k)].skipped = TRUE]
  /\ loc' = [loc EXCEPT ![k] = NoLoc]
  /\ UNCHANGED <<slotVars, cl, clockVars, raidObj, live, stats, storeVars, cmds, polling, timer, delay, pc, cur, sessVars>>

\* The next entry is polled: pollCount++, lastAttempt = now, withSlot(fetchMetrics).
PollAttempt(k, cap) ==
  /\ pc[k] = "loop"
  /\ Remaining(k) # {}
  /\ LET r == NextEntry(k) IN
     /\ ~Skips(raidObj[r], now)
     /\ raidObj[r].pollCount < cap
     /\ raidObj' = [raidObj EXCEPT ![r].pollCount = @ + 1, ![r].lastAttempt = now]
     /\ hist' = [hist EXCEPT ![r].skipped = FALSE, ![r].polled = TRUE]
     /\ it' = [it EXCEPT ![k] = r]
     /\ cur' = [cur EXCEPT ![k] = r]
     /\ loc' = [loc EXCEPT ![k] = NoLoc]
  /\ IF SlotFull(inFlight)
       THEN /\ SlotEnqueue(PollResolver(k))
            /\ pc' = [pc EXCEPT ![k] = "slotWait"]
       ELSE /\ SlotEnter
            /\ UNCHANGED woken
            /\ pc' = [pc EXCEPT ![k] = "desktop"]
  /\ UNCHANGED <<cl, clockVars, live, stats, storeVars, cmds, polling, timer, delay, sessVars>>

\* The same step for a raid whose pollCount is followed no further than cap:
\* lastAttempt = now, withSlot(fetchMetrics); the count stays at cap.
PollAgain(k, cap) ==
  /\ pc[k] = "loop"
  /\ Remaining(k) # {}
  /\ LET r == NextEntry(k) IN
     /\ ~Skips(raidObj[r], now)
     /\ raidObj[r].pollCount >= cap
     /\ raidObj' = [raidObj EXCEPT ![r].lastAttempt = now]
     /\ hist' = [hist EXCEPT ![r].skipped = FALSE, ![r].polled = TRUE]
     /\ it' = [it EXCEPT ![k] = r]
     /\ cur' = [cur EXCEPT ![k] = r]
     /\ loc' = [loc EXCEPT ![k] = NoLoc]
  /\ IF SlotFull(inFlight)
       THEN /\ SlotEnqueue(PollResolver(k))
            /\ pc' = [pc EXCEPT ![k] = "slotWait"]
       ELSE /\ SlotEnter
            /\ UNCHANGED woken
            /\ pc' = [pc EXCEPT ![k] = "desktop"]
  /\ UNCHANGED <<cl, clockVars, live, stats, storeVars, cmds, polling, timer, delay, sessVars>>

\* a mutation of StartsRecovery: the flag is not consulted
StartsRecoveryUnguarded(err, refreshing) == err = "LOGIN_WALL"

\* a mutation of StartsRecovery: every error kind starts a recovery
StartsRecoveryOnAnyError(err, refreshing) == ~refreshing

\* if (res.err === 'LOGIN_WALL') { if (!sessionRefreshing) { ... } }
StartsRecovery(err, refreshing) == err = "LOGIN_WALL" /\ ~refreshing

\* fetchMetrics returns { ..., err: errType }; if (res.err) { ... }: recovery on
\* LOGIN_WALL, backoff doubled, return.  keep: the history of the result is kept
\* in loc until the loop takes its next step.
FetchFails(k, first, second, keep) ==
  LET r == cur[k]
      err == ErrType(first, second)
  IN
  /\ SlotRelease
  /\ IF StartsRecovery(err, sessionRefreshing)
       THEN /\ sessionRefreshing' = TRUE
            /\ recovering' = recovering + 1
       ELSE UNCHANGED <<sessionRefreshing, recovering>>
  /\ raidObj' = Sweep([raidObj EXCEPT ![r] = AfterError(@)], live \cup HeldBut(k))
  /\ hist' = SweepHist([hist EXCEPT ![r].fails = @ + 1], live \cup HeldBut(k))
  /\ pc' = [pc EXCEPT ![k] = "loop"]
  /\ cur' = [cur EXCEPT ![k] = 0]
  /\ loc' = [loc EXCEPT ![k] = IF keep
                                  THEN [NoLoc EXCEPT !.first = first, !.second = second,
                                                     !.err = err, !.busy = sessionRefreshing]
                                  ELSE NoLoc]
  /\ UNCHANGED <<polling, timer, delay, it, cl, clockVars, live, stats, storeVars, cmds, pages>>

\* res is { likes, replies, retweets }: backoff reset, then completion or progress,
\* up to the await of bot.deleteMessage(chatId, raid.statusMessageId).
FetchSucceeds(k, m, cap) ==
  LET r == cur[k]
      raid == raidObj[r]
  IN
  /\ SlotRelease
  /\ IF IsDone(m, raid.targets)
       THEN /\ Len(stats[raid.chat]) < cap
            /\ raidObj' = [raidObj EXCEPT ![r].backoffMs = BackoffAfterSuccess(@)]
            /\ stats' = [stats EXCEPT ![raid.chat] = PushRecord(@, CompletionRecord(raid, r, now))]
            /\ statsFile' = SaveStats(stats')
            /\ UNCHANGED <<groupLinks, linksFile, pureVars, startVars>>
            /\ hist' = [hist EXCEPT ![r].fails = 0]
            /\ pc' = [pc EXCEPT ![k] = "doneDel"]
            /\ loc' = [loc EXCEPT ![k] = [NoLoc EXCEPT !.res = m, !.was = raid.backoffMs]]
       ELSE /\ raidObj' = [raidObj EXCEPT
                 ![r].backoffMs = BackoffAfterSuccess(@),
                 ![r].halfwayNotified = @ \/ PhraseChoice(raid, m) = "halfway",
                 ![r].delayNotified = @ \/ PhraseChoice(raid, m) = "delay"]
            /\ hist' = [hist EXCEPT ![r].fails = 0]
            /\ loc' = [loc EXCEPT ![k] = [NoLoc EXCEPT !.res = m,
                                                       !.phrases = PhraseChoice(raid, m),
                                                       !.was = raid.backoffMs]]
            /\ pc' = [pc EXCEPT ![k] = "progDel"]
            /\ UNCHANGED <<stats, storeVars>>
  /\ UNCHANGED <<cl, clockVars, live, cmds, polling, timer, delay, it, cur, sessVars>>

\* a mutation of Failed: every result counts as a failure
FailedAlways(res) == TRUE

\* first.err / second.err is truthy: a string that is not empty
Failed(res) == res.err # ""

\* const first = await attemptOnce(url); if (!first.err) return first;
DesktopAttempt(k, o, cap) ==
  /\ pc[k] = "desktop"
  /\ IF ~Failed(AttemptResult(o))
       THEN FetchSucceeds(k, AttemptResult(o).m, cap)
       ELSE /\ pc' = [pc EXCEPT ![k] = "mobile"]
            /\ loc' = [loc EXCEPT ![k].first = AttemptResult(o).err]
            /\ UNCHANGED <<slotVars, cl, clockVars, raidVars, cmds, polling, timer, delay, it, cur, sessVars>>

\* const second = await attemptOnce(toMobileUrl(url)); ... return { ..., err: errType }
MobileAttempt(k, o, cap, keep) ==
  /\ pc[k] = "mobile"
  /\ IF ~Failed(AttemptResult(o))
       THEN FetchSucceeds(k, AttemptResult(o).m, cap)
       ELSE FetchFails(k, loc[k].first, AttemptResult(o).err, keep)

\* newPage(browser) rejects, outside the try of attemptOnce: fetchMetrics rejects,
\* withSlot releases the slot, pollOneRaid and pollLoop reject.  opened: the
\* rejection came after browser.newPage() had resolved (from setUserAgent,
\* setExtraHTTPHeaders, setViewport or setRequestInterception), so a page is open
\* and nothing closes it; such pages are counted up to cap.
AttemptThrows(k, opened, cap) ==
  /\ pc[k] \in {"desktop", "mobile"}
  /\ SlotRelease
  /\ LeaveLoop(k)
  /\ pages' = IF opened THEN Min(pages + 1, cap) ELSE pages
  /\ raidObj' = Sweep(raidObj, live \cup HeldBut(k))
  /\ hist' = SweepHist(hist, live \cup HeldBut(k))
  /\ UNCHANGED <<cl, clockVars, live, stats, storeVars, cmds, sessionRefreshing, recovering>>

\* done: deleteMessage settled (its rejection is caught); await bot.sendVideo(complete)
DoneDeleted(k) ==
  /\ pc[k] = "doneDel"
  /\ pc' = [pc EXCEPT ![k] = "doneSend"]
  /\ UNCHANGED <<slotVars, cl, clockVars, raidVars, cmds, polling, timer, delay, it, cur, loc, sessVars>>

\* done: sendVideo resolved; if (TREND_CH) await postTrending(TREND_CH, true)
DoneSent(k) ==
  /\ pc[k] = "doneSend"
  /\ pc' = [pc EXCEPT ![k] = "doneTrend"]
  /\ UNCHANGED <<slotVars, cl, clockVars, raidVars, cmds, polling, timer, delay, it, cur, loc, sessVars>>

\* done: postTrending resolved; raids.delete(chatId)
DoneTrended(k) ==
  /\ pc[k] = "doneTrend"
  /\ LET left == {r \in live : raidObj[r].chat # raidObj[cur[k]].chat} IN
     /\ live' = left
     /\ raidObj' = Sweep(raidObj, left \cup HeldBut(k))
     /\ hist' = SweepHist(hist, left \cup HeldBut(k))
  /\ BackToLoop(k)
  /\ UNCHANGED <<slotVars, cl, clockVars, stats, storeVars, cmds, sessVars>>

\* progress: deleteMessage settled; await bot.sendVideo(progress)
ProgDeleted(k) ==
  /\ pc[k] = "progDel"
  /\ loc' = [loc EXCEPT ![k].sent = MsgId(cur[k], raidObj[cur[k]].pollCount)]
  /\ pc' = [pc EXCEPT ![k] = "progSend"]
  /\ UNCHANGED <<slotVars, cl, clockVars, raidVars, cmds, polling, timer, delay, it, cur, sessVars>>

\* progress: sendVideo resolved; raid.statusMessageId = newVid.message_id
ProgSent(k) ==
  /\ pc[k] = "progSend"
  /\ raidObj' = Sweep([raidObj EXCEPT ![cur[k]].statusMessageId = loc[k].sent],
                       live \cup HeldBut(k))
  /\ hist' = SweepHist(hist, live \cup HeldBut(k))
  /\ BackToLoop(k)
  /\ UNCHANGED <<slotVars, cl, clockVars, live, stats, storeVars, cmds, sessVars>>

\* An awaited Telegram call that is not caught rejects (sendVideo of the completion
\* or of the progress update, postTrending): pollOneRaid and pollLoop reject.
CallRejects(k) ==
  /\ pc[k] \in {"doneSend", "doneTrend", "progSend"}
  /\ LeaveLoop(k)
  /\ raidObj' = Sweep(raidObj, live \cup HeldBut(k))
  /\ hist' = SweepHist(hist, live \cup HeldBut(k))
  /\ UNCHANGED <<slotVars, cl, clockVars, live, stats, storeVars, cmds, sessVars>>

\* ensureSessionLoggedIn() settles: .finally(() => { sessionRefreshing = false; })
RecoveryEnds ==
  /\ recovering > 0
  /\ recovering' = recovering - 1
  /\ sessionRefreshing' = FALSE
  /\ UNCHANGED <<slotVars, cl, clockVars, raidVars, cmds, loopVars, pages>>

\* the steps that carry no bound: the handlers' continuations, the poll loop past
\* the fetch, the recovery
Engine ==
  \/ \E h \in cmds : RaidSent(h)
  \/ \E h \in cmds : RaidSendFails(h)
  \/ \E g \in Chats : Cancel(g)
  \/ PollLoopCall(Scheduler)
  \/ \E k \in Pollers : PollLoopEnd(k)
  \/ \E k \in Pollers : PollSkip(k)
  \/ \E k \in Pollers : DoneDeleted(k)
  \/ \E k \in Pollers : DoneSent(k)
  \/ \E k \in Pollers : DoneTrended(k)
  \/ \E k \in Pollers : ProgDeleted(k)
  \/ \E k \in Pollers : ProgSent(k)
  \/ \E k \in Pollers : CallRejects(k)
  \/ RecoveryEnds

Next ==
  \/ \E d \in TickSteps : Tick(d, MaxTicks)
  \/ \E g \in Chats, t \in TargetChoices, w \in BOOLEAN : RaidCommand(g, t, w, MaxRaids, FALSE)
  \/ \E k \in Pollers : PollAttempt(k, MaxPolls)
  \/ \E k \in Pollers, opened \in BOOLEAN : AttemptThrows(k, opened, 0)
  \/ \E k \in Pollers, o \in Outcomes : DesktopAttempt(k, o, MaxRecords)
  \/ \E k \in Pollers, o \in Outcomes : MobileAttempt(k, o, MaxRecords, FALSE)
  \/ Engine

Spec == Init /\ [][Next]_vars

\* The engine with one raid of one group, followed over many polls: the clock
\* advances between two cycles of a running raid (the scheduler sleeps), by the
\* longest backoff, so that every backoff can elapse.
SoloTick ==
  /\ pc[Scheduler] = "idle"
  /\ live # {}
  /\ Tick(MAX_BACKOFF, SoloTicks)

SoloNext ==
  \/ SoloTick
  \/ \E t \in TargetChoices, w \in BOOLEAN : RaidCommand("g1", t, w, 1, FALSE)
  \/ \E k \in Pollers : PollAttempt(k, SoloPolls)
  \/ \E k \in Pollers, opened \in BOOLEAN : AttemptThrows(k, opened, 0)
  \/ \E k \in Pollers, o \in Outcomes : DesktopAttempt(k, o, SoloRecords)
  \/ \E k \in Pollers, o \in Outcomes : MobileAttempt(k, o, SoloRecords, FALSE)
  \/ Engine

SoloSpec == Init /\ [][SoloNext]_vars

\* The engine with one raid of one group and the history of its error results
\* kept; the clock advances as in SoloSpec.
RetryTick ==
  /\ pc[Scheduler] = "idle"
  /\ live # {}
  /\ Tick(MAX_BACKOFF, RetryTicks)

RetryNext ==
  \/ RetryTick
  \/ \E t \in TargetChoices, w \in BOOLEAN : RaidCommand("g1", t, w, 1, FALSE)
  \/ \E k \in Pollers : PollAttempt(k, RetryPolls)
  \/ \E k \in Pollers, opened \in BOOLEAN : AttemptThrows(k, opened, 0)
  \/ \E k \in Pollers, o \in Outcomes : DesktopAttempt(k, o, SoloRecords)
  \/ \E k \in Pollers, o \in Outcomes : MobileAttempt(k, o, SoloRecords, TRUE)
  \/ Engine

RetrySpec == Init /\ [][RetryNext]_vars

\* The engine with one raid of one group polled often enough for the delay
\* notice to fall due (pollCount * POLL_MS > 300000); the clock stands still.
PaceNext ==
  \/ \E t \in TargetChoices, w \in BOOLEAN : RaidCommand("g1", t, w, 1, FALSE)
  \/ \E k \in Pollers : PollAttempt(k, PacePolls)
  \/ \E k \in Pollers, opened \in BOOLEAN : AttemptThrows(k, opened, 0)
  \/ \E k \in Pollers, o \in Outcomes : DesktopAttempt(k, o, SoloRecords)
  \/ \E k \in Pollers, o \in Outcomes : MobileAttempt(k, o, SoloRecords, TRUE)
  \/ Engine

PaceSpec == Init /\ [][PaceNext]_vars

\* The engine with the replies of refused /raid commands followed until they
\* settle and the pages left open counted; the clock stands still.
TraceNext ==
  \/ \E g \in Chats, t \in TargetChoices, w \in BOOLEAN : RaidCommand(g, t, w, MaxRaids, TRUE)
  \/ \E h \in cmds : RefusalSettles(h)
  \/ \E k \in Pollers : PollAttempt(k, TracePolls)
  \/ \E k \in Pollers, opened \in BOOLEAN : AttemptThrows(k, opened, MaxPages)
  \/ \E k \in Pollers, o \in Outcomes : DesktopAttempt(k, o, MaxRecords)
  \/ \E k \in Pollers, o \in Outcomes : MobileAttempt(k, o, MaxRecords, TRUE)
  \/ Engine

TraceSpec == Init /\ [][TraceNext]_vars

\* The engine with the two stored documents followed: raids of two groups that
\* complete, and /setgrouplink; the clock stands still.
StoreNext ==
  \/ \E g \in Chats, t \in TargetChoices, w \in BOOLEAN : RaidCommand(g, t, w, MaxRaids, FALSE)
  \/ \E g \in Chats, l \in LinkChoices : SetGroupLink(g, l)
  \/ \E k \in Pollers : PollAttempt(k, TracePolls)
  \/ \E k \in Pollers, opened \in BOOLEAN : AttemptThrows(k, opened, 0)
  \/ \E k \in Pollers, o \in Outcomes : DesktopAttempt(k, o, MaxRecords)
  \/ \E k \in Pollers, o \in Outcomes : MobileAttempt(k, o, MaxRecords, FALSE)
  \/ Engine

StoreSpec == Init /\ [][StoreNext]_vars

\* postTrending alone, over stored histories of more groups than the
\* leaderboard shows.
BoardInit ==
  /\ inFlight = 0
  /\ queue = <<>>
  /\ woken = <<>>
  /\ arrivals = <<>>
  /\ cl = [c \in FnCallers |-> "idle"]
  /\ now = BoardNow
  /\ ticks = 0
  /\ raidObj = <<>>
  /\ live = {}
  /\ \E other \in [{g \in BoardGroups : g % 2 = 0 \/ g = NGroups} -> BOOLEAN] :
       stats = [g \in BoardGroups |->
                  HistoryOf(g, IF g \in DOMAIN other THEN other[g] ELSE FALSE)]
  /\ cmds = {}
  /\ polling = FALSE
  /\ timer = 1
  /\ delay = 0
  /\ jitter = 0
  /\ pc = [k \in Pollers |-> "idle"]
  /\ it = [k \in Pollers |-> 0]
  /\ cur = [k \in Pollers |-> 0]
  /\ loc = [k \in Pollers |-> NoLoc]
  /\ sessionRefreshing = FALSE
  /\ recovering = 0
  /\ pages = 0
  /\ statsFile = SaveStats(stats)
  /\ groupLinks = [g \in BoardGroups |-> NoLink]
  /\ linksFile = NoFile(groupLinks)
  /\ posted = NotPosted
  /\ raw = <<>>
  /\ parsed = NotParsed
  /\ login = Started
  /\ hist = <<>>

\* postTrending up to its first await: const now = Date.now(); const summary = ...
PostTrending ==
  /\ posted' = [yes |-> TRUE, summary |-> Summary(stats, KeysUpTo(stats, NGroups), now)]
  /\ UNCHANGED <<slotVars, cl, clockVars, raidObj, live, stats, hist, statsFile,
                 groupLinks, linksFile, raw, parsed, startVars, cmds, loopVars, sessVars>>

BoardNext == PostTrending

BoardSpec == BoardInit /\ [][BoardNext]_vars

\* parseCount alone, over the texts.
ParseInit ==
  /\ inFlight = 0
  /\ queue = <<>>
  /\ woken = <<>>
  /\ arrivals = <<>>
  /\ cl = [c \in FnCallers |-> "idle"]
  /\ now = 0
  /\ ticks = 0
  /\ raidObj = <<>>
  /\ live = {}
  /\ stats = [g \in Chats |-> <<>>]
  /\ cmds = {}
  /\ polling = FALSE
  /\ timer = 1
  /\ delay = 0
  /\ jitter = 0
  /\ pc = [k \in Pollers |-> "idle"]
  /\ it = [k \in Pollers |-> 0]
  /\ cur = [k \in Pollers |-> 0]
  /\ loc = [k \in Pollers |-> NoLoc]
  /\ sessionRefreshing = FALSE
  /\ recovering = 0
  /\ pages = 0
  /\ statsFile = NoFile(StatsText(stats))
  /\ groupLinks = [g \in Chats |-> NoLink]
  /\ linksFile = NoFile(groupLinks)
  /\ posted = NotPosted
  /\ raw \in Texts
  /\ parsed = NotParsed
  /\ login = Started
  /\ hist = <<>>

\* one call of parseCount(raw)
ParseCountCall ==
  /\ parsed' = [yes |-> TRUE, nan |-> ParseCount(raw).nan, digits |-> ParseCount(raw).digits]
  /\ UNCHANGED <<slotVars, cl, clockVars, raidObj, live, stats, hist, statsFile,
                 groupLinks, linksFile, posted, raw, startVars, cmds, loopVars, sessVars>>

ParseNext == ParseCountCall

ParseSpec == ParseInit /\ [][ParseNext]_vars

\* The start of the process alone, for every setting of the credentials.
LoginInit ==
  /\ inFlight = 0
  /\ queue = <<>>
  /\ woken = <<>>
  /\ arrivals = <<>>
  /\ cl = [c \in FnCallers |-> "idle"]
  /\ now = 0
  /\ ticks = 0
  /\ raidObj = <<>>
  /\ live = {}
  /\ stats = [g \in Chats |-> <<>>]
  /\ cmds = {}
  /\ polling = FALSE
  /\ timer = 0
  /\ delay = 0
  /\ jitter = 0
  /\ pc = [k \in Pollers |-> "idle"]
  /\ it = [k \in Pollers |-> 0]
  /\ cur = [k \in Pollers |-> 0]
  /\ loc = [k \in Pollers |-> NoLoc]
  /\ sessionRefreshing = FALSE
  /\ recovering = 0
  /\ pages = 0
  /\ statsFile = NoFile(StatsText(stats))
  /\ groupLinks = [g \in Chats |-> NoLink]
  /\ linksFile = NoFile(groupLinks)
  /\ posted = NotPosted
  /\ raw = <<>>
  /\ parsed = NotParsed
  /\ \E creds, email, totp \in BOOLEAN : login = AtStart(creds, email, totp)
  /\ hist = <<>>

loginFrame == <<slotVars, cl, clockVars, raidObj, live, stats, hist, statsFile,
                groupLinks, linksFile, pureVars, jitter, cmds, loopVars, sessVars>>

\* await ensureBrowser() of the start and of ensureSessionLoggedIn: the browser
\* is connected or launched, or the launch fails and the process exits
StartBrowser(o) ==
  /\ login.pc \in {"start", "es_browser"}
  /\ login' = [login EXCEPT !.pc = IF o = "throws" THEN "exit"
                                   ELSE IF login.pc = "start" THEN "es_browser"
                                   ELSE "es_newPage"]
  /\ UNCHANGED loginFrame

\* const page = await newPage(browser), before the try of ensureSessionLoggedIn
SessionNewPage(o) ==
  /\ login.pc = "es_newPage"
  /\ login' = IF o = "ok"
                THEN [login EXCEPT !.pc = "es_goto", !.home = TRUE]
                ELSE [login EXCEPT !.pc = "settled", !.result = "threw",
                                   !.home = (o = "configThrows")]
  /\ UNCHANGED loginFrame

\* await page.goto(home); a rejection goes to catch: return false
SessionGoto(o) ==
  /\ login.pc = "es_goto"
  /\ login' = IF o = "ok" THEN [login EXCEPT !.pc = "es_idle"]
                ELSE SessionReturns(login, "false")
  /\ UNCHANGED loginFrame

\* try { await page.waitForNetworkIdle(...) } catch {}
SessionIdle(o) ==
  /\ login.pc = "es_idle"
  /\ login' = [login EXCEPT !.pc = "es_wall"]
  /\ UNCHANGED loginFrame

\* const wall = await isLoginWall(page); if (!wall) return true;
\* const ok = await performLogin(), up to its first await
SessionWall(o) ==
  /\ login.pc = "es_wall"
  /\ login' = CASE o = "noWall" -> SessionReturns(login, "true")
                 [] o = "throws" -> SessionReturns(login, "false")
                 [] o = "wall" -> IF login.creds THEN [login EXCEPT !.pc = "pl_newPage"]
                                  ELSE LoginSettled(login, "false")
  /\ UNCHANGED loginFrame

\* const page = await newPage(browser), before the try of performLogin
LoginNewPage(o) ==
  /\ login.pc = "pl_newPage"
  /\ login' = IF o = "ok"
                THEN [login EXCEPT !.pc = "pl_goto", !.form = TRUE]
                ELSE LoginSettled([login EXCEPT !.form = (o = "configThrows")], "threw")
  /\ UNCHANGED loginFrame

\* page.goto(login); the user name: waitForSelector, type, press; the
\* password: waitForSelector, type, press
LoginStep(o) ==
  /\ login.pc \in {"pl_goto", "pl_user", "pl_password"}
  /\ login' = IF o = "ok" THEN [login EXCEPT !.pc = LoginStepAfter(login.pc)]
                ELSE LoginReturns("false")
  /\ UNCHANGED loginFrame

\* the confirmation of e-mail or phone: try { ... } catch { }
LoginConfirm(o) ==
  /\ login.pc = "pl_confirm"
  /\ login' = [login EXCEPT !.pc = "pl_password"]
  /\ UNCHANGED loginFrame

\* if (process.env.X_TOTP_SECRET && authenticator) { try { ... } catch { } }
LoginTotp(o) ==
  /\ login.pc = "pl_totp"
  /\ login' = [login EXCEPT !.pc = "pl_home"]
  /\ UNCHANGED loginFrame

\* try { await page.waitForSelector(profile ...) } catch (e) { ... }; return true
LoginHome(o) ==
  /\ login.pc = "pl_home"
  /\ login' = IF o = "ok" THEN LoginReturns("true") ELSE [login EXCEPT !.pc = "pl_wall"]
  /\ UNCHANGED loginFrame

\* if (await isLoginWall(page)) return false; else return true; a rejection
\* goes to the outer catch: return false
LoginWall(o) ==
  /\ login.pc = "pl_wall"
  /\ login' = LoginReturns(IF o = "noWall" THEN "true" ELSE "false")
  /\ UNCHANGED loginFrame

\* finally { try { await page.close(); } catch {} } of performLogin
LoginClose(o) ==
  /\ login.pc = "pl_close"
  /\ login' = LoginSettled([login EXCEPT !.form = (o = "throws")], login.ret)
  /\ UNCHANGED loginFrame

\* finally { try { await page.close(); } catch {} } of ensureSessionLoggedIn
SessionClose(o) ==
  /\ login.pc = "es_close"
  /\ login' = [login EXCEPT !.pc = "settled", !.home = (o = "throws"),
                            !.result = login.res, !.res = "none"]
  /\ UNCHANGED loginFrame

LoginNext ==
  \/ \E o \in Settles : StartBrowser(o)
  \/ \E o \in PageSettles : SessionNewPage(o)
  \/ \E o \in Settles : SessionGoto(o)
  \/ \E o \in Settles : SessionIdle(o)
  \/ \E o \in WallSettles : SessionWall(o)
  \/ \E o \in PageSettles : LoginNewPage(o)
  \/ \E o \in Settles : LoginStep(o)
  \/ \E o \in Settles : LoginConfirm(o)
  \/ \E o \in Settles : LoginTotp(o)
  \/ \E o \in Settles : LoginHome(o)
  \/ \E o \in WallSettles : LoginWall(o)
  \/ \E o \in Settles : LoginClose(o)
  \/ \E o \in Settles : SessionClose(o)

LoginSpec == LoginInit /\ [][LoginNext]_vars

\* A recovery of the session has just been started by pollOneRaid:
\* sessionRefreshing = true; ensureSessionLoggedIn()...
RecoverInit ==
  /\ inFlight = 0
  /\ queue = <<>>
  /\ woken = <<>>
  /\ arrivals = <<>>
  /\ cl = [c \in FnCallers |-> "idle"]
  /\ now = 0
  /\ ticks = 0
  /\ raidObj = <<>>
  /\ live = {}
  /\ stats = [g \in Chats |-> <<>>]
  /\ cmds = {}
  /\ polling = FALSE
  /\ timer = 0
  /\ delay = 0
  /\ jitter = 0
  /\ pc = [k \in Pollers |-> "idle"]
  /\ it = [k \in Pollers |-> 0]
  /\ cur = [k \in Pollers |-> 0]
  /\ loc = [k \in Pollers |-> NoLoc]
  /\ sessionRefreshing = TRUE
  /\ recovering = 1
  /\ pages = 0
  /\ statsFile = NoFile(StatsText(stats))
  /\ groupLinks = [g \in Chats |-> NoLink]
  /\ linksFile = NoFile(groupLinks)
  /\ posted = NotPosted
  /\ raw = <<>>
  /\ parsed = NotParsed
  /\ \E creds, email, totp \in BOOLEAN :
       login = [AtStart(creds, email, totp) EXCEPT !.pc = "es_browser"]
  /\ hist = <<>>

\* the flag if it were cleared in the then callback only
RefreshingAfterThen(result) == result = "threw"

\* the flag after the chain has settled: finally runs on every outcome
RefreshingAfter(result) == FALSE

\* .finally(() => { sessionRefreshing = false; }): ensureSessionLoggedIn has
\* settled, with true, with false or by throwing
RecoveryFinally ==
  /\ login.pc = "settled"
  /\ recovering > 0
  /\ recovering' = recovering - 1
  /\ sessionRefreshing' = RefreshingAfter(login.result)
  /\ UNCHANGED <<slotVars, cl, clockVars, raidVars, cmds, loopVars, pages>>

\* a later fetch fails with LOGIN_WALL: if (!sessionRefreshing) {
\* sessionRefreshing = true; ensureSessionLoggedIn()... }
RecoveryStarts ==
  /\ login.pc = "settled"
  /\ StartsRecovery("LOGIN_WALL", sessionRefreshing)
  /\ sessionRefreshing' = TRUE
  /\ recovering' = recovering + 1
  /\ login' = [AtStart(login.creds, login.email, login.totp) EXCEPT !.pc = "es_browser"]
  /\ UNCHANGED <<slotVars, cl, clockVars, raidObj, live, stats, hist, statsFile,
                 groupLinks, linksFile, pureVars, jitter, cmds, loopVars, pages>>

RecoveryNext ==
  \/ LoginNext
  \/ RecoveryFinally
  \/ RecoveryStarts

\* every awaited call of the recovery settles, and the finally callback runs
RecoverySpec ==
  /\ RecoverInit
  /\ [][RecoveryNext]_vars
  /\ WF_vars(LoginNext)
  /\ WF_vars(RecoveryFinally)

\* The engine with the default jitter, one raid of one group and the delays of
\* the scheduler followed; the clock stands still.
SchedInit ==
  /\ inFlight = 0
  /\ queue = <<>>
  /\ woken = <<>>
  /\ arrivals = <<>>
  /\ cl = [c \in FnCallers |-> "idle"]
  /\ now = 0
  /\ ticks = 0
  /\ raidObj = <<>>
  /\ live = {}
  /\ stats = [g \in Chats |-> <<>>]
  /\ cmds = {}
  /\ polling = FALSE
  /\ timer = 1
  /\ delay = 0
  /\ jitter = JITTER
  /\ pc = [k \in Pollers |-> "idle"]
  /\ it = [k \in Pollers |-> 0]
  /\ cur = [k \in Pollers |-> 0]
  /\ loc = [k \in Pollers |-> NoLoc]
  /\ sessionRefreshing = FALSE
  /\ recovering = 0
  /\ pages = 0
  /\ statsFile = NoFile(StatsText(stats))
  /\ groupLinks = [g \in Chats |-> NoLink]
  /\ linksFile = NoFile(groupLinks)
  /\ posted = NotPosted
  /\ raw = <<>>
  /\ parsed = NotParsed
  /\ login = Started
  /\ hist = <<>>

SchedNext ==
  \/ \E t \in TargetChoices, w \in BOOLEAN : RaidCommand("g1", t, w, 1, FALSE)
  \/ \E k \in Pollers : PollAttempt(k, SchedPolls)
  \/ \E k \in Pollers, opened \in BOOLEAN : AttemptThrows(k, opened, 0)
  \/ \E k \in Pollers, o \in Outcomes : DesktopAttempt(k, o, SoloRecords)
  \/ \E k \in Pollers, o \in Outcomes : MobileAttempt(k, o, SoloRecords, FALSE)
  \/ Engine

SchedSpec == SchedInit /\ [][SchedNext]_vars

\* The engine with a second trigger of pollLoop beside the scheduler's timer.
ReentryNext ==
  \/ \E d \in TickSteps : Tick(d, MaxTicks)
  \/ \E g \in Chats, t \in TargetChoices, w \in BOOLEAN : RaidCommand(g, t, w, ReentryRaids, FALSE)
  \/ \E k \in Pollers : PollAttempt(k, MaxPolls)
  \/ \E k \in Pollers, opened \in BOOLEAN : AttemptThrows(k, opened, 0)
  \/ \E k \in Pollers, o \in Outcomes : DesktopAttempt(k, o, MaxRecords)
  \/ \E k \in Pollers, o \in Outcomes : MobileAttempt(k, o, MaxRecords, FALSE)
  \/ Engine
  \/ PollLoopCall(Trigger)

ReentrySpec == Init /\ [][ReentryNext]_vars

\* The engine with raids of two groups in one cycle and a second trigger of
\* pollLoop; the clock stands still.
CycleNext ==
  \/ \E g \in Chats, t \in TargetChoices, w \in BOOLEAN : RaidCommand(g, t, w, MaxRaids, FALSE)
  \/ \E k \in Pollers : PollAttempt(k, MaxPolls)
  \/ \E k \in Pollers, opened \in BOOLEAN : AttemptThrows(k, opened, 0)
  \/ \E k \in Pollers, o \in Outcomes : DesktopAttempt(k, o, SoloRecords)
  \/ \E k \in Pollers, o \in Outcomes : MobileAttempt(k, o, SoloRecords, FALSE)
  \/ Engine
  \/ PollLoopCall(Trigger)

CycleSpec == Init /\ [][CycleNext]_vars

\* The engine with one raid whose progress average falls on 50%; the clock
\* stands still.
HalfNext ==
  \/ \E t \in HalfTargets, w \in BOOLEAN : RaidCommand("g1", t, w, 1, FALSE)
  \/ \E k \in Pollers : PollAttempt(k, MaxPolls)
  \/ \E k \in Pollers, opened \in BOOLEAN : AttemptThrows(k, opened, 0)
  \/ \E k \in Pollers, o \in HalfOutcomes : DesktopAttempt(k, o, SoloRecords)
  \/ \E k \in Pollers, o \in HalfOutcomes : MobileAttempt(k, o, SoloRecords, FALSE)
  \/ Engine

HalfSpec == Init /\ [][HalfNext]_vars

\* The engine with one raid polled often enough for the delay notice to fall
\* due, with attempts that fail; the clock advances between two cycles, by the
\* longest backoff, so that a raid in backoff is skipped and later polled again.
DelayTick ==
  /\ pc[Scheduler] = "idle"
  /\ live # {}
  /\ Tick(MAX_BACKOFF, RetryTicks)

DelayNext ==
  \/ DelayTick
  \/ \E t \in TargetChoices, w \in BOOLEAN : RaidCommand("g1", t, w, 1, FALSE)
  \/ \E k \in Pollers : PollAttempt(k, PacePolls)
  \/ \E k \in Pollers, opened \in BOOLEAN : AttemptThrows(k, opened, 0)
  \/ \E k \in Pollers, o \in Outcomes : DesktopAttempt(k, o, SoloRecords)
  \/ \E k \in Pollers, o \in Outcomes : MobileAttempt(k, o, SoloRecords, FALSE)
  \/ Engine

DelaySpec == Init /\ [][DelayNext]_vars

\* The engine with raids of two groups followed without end: the clock advances
\* between two cycles, a pollCount is followed up to FairPolls and attempts go
\* on beyond it, a fetch fails up to FairFails times in a row.  Every
\* continuation of the event loop runs (weak fairness); every awaited call of
\* a raid that is made again and again returns (strong fairness on its return,
\* for each raid and each place of the call), though it may also reject.
FairOutcomes ==
  [kind : {"read"}, m : {[likes |-> 1, replies |-> 0, retweets |-> 0]}, msg : {""}]
    \cup [kind : {"timeout"}, m : {[likes |-> 0, replies |-> 0, retweets |-> 0]}, msg : {""}]

FairTick ==
  /\ pc[Scheduler] = "idle"
  /\ live # {}
  /\ Tick(MAX_BACKOFF, FairTicks)

\* fetchMetrics settles for the raid the scheduler's cycle is at
FairDesktop(o) == DesktopAttempt(Scheduler, o, SoloRecords)

FairMobile(o) ==
  /\ pc[Scheduler] = "mobile"
  /\ Failed(AttemptResult(o)) => hist[cur[Scheduler]].fails < FairFails
  /\ MobileAttempt(Scheduler, o, SoloRecords, FALSE)

FairNext ==
  \/ FairTick
  \/ \E g \in Chats, t \in TargetChoices : RaidCommand(g, t, TRUE, MaxRaids, FALSE)
  \/ \E h \in cmds : RaidSent(h)
  \/ \E h \in cmds : RaidSendFails(h)
  \/ \E g \in Chats : Cancel(g)
  \/ PollLoopCall(Scheduler)
  \/ PollLoopEnd(Scheduler)
  \/ PollSkip(Scheduler)
  \/ PollAttempt(Scheduler, FairPolls)
  \/ PollAgain(Scheduler, FairPolls)
  \/ \E opened \in BOOLEAN : AttemptThrows(Scheduler, opened, 0)
  \/ \E o \in FairOutcomes : FairDesktop(o)
  \/ \E o \in FairOutcomes : FairMobile(o)
  \/ ProgDeleted(Scheduler)
  \/ ProgSent(Scheduler)
  \/ CallRejects(Scheduler)

\* the places where pollOneRaid awaits a call that can reject
Sites == {"desktop", "mobile", "progSend"}

\* the call that pollOneRaid awaits at place site for raid r returns
Returns(r, site) ==
  /\ cur[Scheduler] = r
  /\ pc[Scheduler] = site
  /\ \/ \E o \in FairOutcomes : FairDesktop(o)
     \/ \E o \in FairOutcomes : FairMobile(o)
     \/ ProgSent(Scheduler)

\* a step of the scheduler's cycle that awaits no call that can reject
Continues ==
  \/ PollLoopCall(Scheduler)
  \/ PollLoopEnd(Scheduler)
  \/ PollSkip(Scheduler)
  \/ PollAttempt(Scheduler, FairPolls)
  \/ PollAgain(Scheduler, FairPolls)
  \/ ProgDeleted(Scheduler)

FairSpec ==
  /\ Init
  /\ [][FairNext]_vars
  /\ WF_vars(Continues)
  /\ \A r \in 1..MaxRaids, site \in Sites : SF_vars(Returns(r, site))


\* withSlot under arbitrary callers: calls, settlements and resumptions interleave
SlotNext ==
  \/ \E c \in FnCallers : FnCall(c)
  \/ \E c \in FnCallers : FnResume(c)
  \/ \E c \in FnCallers : FnSettle(c)

SlotSpec == Init /\ [][SlotNext]_vars

\* SlotSpec where every fn settles in the end and the continuation of every
\* woken waiter runs in the end (the microtask queue is drained)
SlotLiveSpec ==
  /\ SlotSpec
  /\ \A c \in FnCallers : WF_vars(FnResume(c)) /\ WF_vars(FnSettle(c))

\* 2*CAP calls launched together: every call is issued before any fn settles
BurstCallers == 1 .. (2 * CONCURRENCY)

BurstCall(c) == c \in BurstCallers /\ FnCall(c)

BurstSettle(c) == /\ \A d \in BurstCallers : cl[d] # "idle"
                  /\ c \in BurstCallers
                  /\ FnSettle(c)

BurstNext ==
  \/ \E c \in FnCallers : BurstCall(c)
  \/ \E c \in FnCallers : FnResume(c)
  \/ \E c \in FnCallers : BurstSettle(c)

BurstSpec == Init /\ [][BurstNext]_vars

\* ------------------------------------------------------------------------
\* C1: for every interleaving of withSlot calls, settlements and wake-ups,
\* the number of callers running fn never exceeds CONCURRENCY.
\* The code lets a caller that arrives between a release and the resumption
\* of the waiter that release woke take the freed slot; the waiter then
\* increments inFlight without testing it again.
\* ------------------------------------------------------------------------
C1_CapUnderAnyInterleaving == Cardinality(Running) <= CONCURRENCY

\* ------------------------------------------------------------------------
\* C2: when 2*CAP calls are launched together (all issued before any
\* settles), at most CAP of them run fn at any instant until all finished.
\* ------------------------------------------------------------------------
C2_BurstCap == /\ Cardinality(Running) <= CONCURRENCY
               /\ inFlight <= CONCURRENCY

\* all 2*CAP calls were issued, CAP of them run and the others wait, and
\* later a waiter that was woken is running while the queue is drained
C2_Witness == /\ Launched = BurstCallers
              /\ Cardinality(Running) = CONCURRENCY
              /\ Cardinality(Settled) = CONCURRENCY
              /\ queue = <<>>

\* ------------------------------------------------------------------------
\* C3: after N consecutive error results of fetchMetrics for one raid (skipped
\* cycles not counted, no success in between), the raid's backoffMs equals
\* min(30000 * 2^(N-1), 600000), for every N >= 1.
\* ------------------------------------------------------------------------
C3_BackoffAfterNFailures ==
  \A r \in RaidIds :
    hist[r].fails >= 1 =>
      raidObj[r].backoffMs = Min(30000 * 2^(hist[r].fails - 1), 600000)

\* a raid failed six times in a row: the doubling has gone past the cap
C3_Witness ==
  \E r \in live : hist[r].fails = 6 /\ raidObj[r].backoffMs = MAX_BACKOFF

\* ------------------------------------------------------------------------
\* C4: a raid whose latest fetch result is a success has backoffMs = 0,
\* whatever the failures before it, and so is not skipped by the cycle that
\* visits it next, at whatever time that is.
\* ------------------------------------------------------------------------
C4_SuccessResetsBackoff ==
  \A r \in RaidIds :
    hist[r].fails = 0 => raidObj[r].backoffMs = 0 /\ ~Skips(raidObj[r], now)

\* a success has just arrived for a live raid that was backed off by 8 minutes
\* after five failures in a row
C4_Witness ==
  \E k \in Pollers :
    /\ pc[k] = "progDel"
    /\ cur[k] \in live
    /\ loc[k].was = 480000
    /\ raidObj[cur[k]].backoffMs = 0
    /\ hist[cur[k]].fails = 0

\* ------------------------------------------------------------------------
\* C5: when the cycle reaches a raid with now - lastAttempt < backoffMs, the
\* raid is skipped: no fetch is started (no slot taken, nothing queued, the
\* loop goes on) and no field of the raid changes; the live set is unchanged.
\* ------------------------------------------------------------------------
C5_SkipFrame ==
  [][\A k \in Pollers :
       (/\ pc[k] = "loop"
        /\ Remaining(k) # {}
        /\ now - raidObj[NextEntry(k)].lastAttempt < raidObj[NextEntry(k)].backoffMs
        /\ it'[k] # it[k])
       => /\ it'[k] = NextEntry(k)
          /\ raidObj' = raidObj
          /\ live' = live
          /\ stats' = stats
          /\ inFlight' = inFlight
          /\ queue' = queue
          /\ pc'[k] = "loop"
          /\ cur'[k] = 0]_vars

\* a live raid that carries a status message was skipped by the running cycle,
\* inside its backoff window
C5_Witness ==
  \E k \in Pollers :
    /\ pc[k] = "loop"
    /\ it[k] \in live
    /\ hist[it[k]].skipped
    /\ now - raidObj[it[k]].lastAttempt < raidObj[it[k]].backoffMs
    /\ raidObj[it[k]].statusMessageId # NoMsg

\* ------------------------------------------------------------------------
\* C6: cycles never overlap: at most one invocation of pollLoop is inside
\* the loop at any time, and no raid is held by two invocations.
\* ------------------------------------------------------------------------
C6_SingleFlight ==
  /\ Cardinality({k \in Pollers : pc[k] \notin {"idle", "declined"}}) <= 1
  /\ \A j, k \in Pollers : j # k /\ cur[j] # 0 => cur[j] # cur[k]

\* a second invocation was issued and declined while the scheduler's cycle is
\* in the middle of a fetch
C6_Witness ==
  /\ pc[Trigger] = "declined"
  /\ pc[Scheduler] \in FetchPcs
  /\ polling

\* ------------------------------------------------------------------------
\* C7: once a fetch found a raid complete (its CompletionRecord is written),
\* the raid is never fetched again.
\* The code removes the raid only after the completion message and the
\* leaderboard refresh have resolved; when one of them rejects the raid stays
\* in the Map and the next cycle fetches it again.
\* ------------------------------------------------------------------------
RecordsOf(r) ==
  {i \in DOMAIN stats[raidObj[r].chat] : stats[raidObj[r].chat][i].raid = r}

C7_CompletedNeverFetchedAgain ==
  \A k \in Pollers :
    cur[k] # 0 /\ pc[k] \in FetchPcs => RecordsOf(cur[k]) = {}

\* ------------------------------------------------------------------------
\* C8: when a raid was canceled while its fetch was in flight, the result of
\* that fetch is discarded: no progress or completion message is being sent
\* for it and no CompletionRecord exists for it.
\* The code never looks at the Map after the fetch returns.
\* ------------------------------------------------------------------------
C8_CanceledResultDiscarded ==
  \A k \in Pollers :
    cur[k] # 0 /\ hist[cur[k]].canceledInFetch =>
      /\ pc[k] \notin CompletionPcs \cup ProgressPcs
      /\ RecordsOf(cur[k]) = {}

\* ------------------------------------------------------------------------
\* C9: no raid of the live set has a CompletionRecord: a raid is out of the
\* Map in every state in which its record is written.
\* The code writes the record first and deletes the entry after three awaits.
\* ------------------------------------------------------------------------
C9_RemovedWhenMarkedComplete ==
  \A r \in live : RecordsOf(r) = {}

\* ------------------------------------------------------------------------
\* C10: the poll of a live raid that ends with an error result changes only
\* pollCount and lastAttempt (when the attempt starts) and backoffMs (when
\* the error arrives); the raid stays in the live set, no record is written
\* and pollOneRaid returns without awaiting any Telegram call.
\* ------------------------------------------------------------------------
C10_ErrorFrame ==
  [][\A k \in Pollers :
       /\ (pc[k] = "loop" /\ pc'[k] \in FetchPcs)
            => /\ raidObj'[cur'[k]] = [raidObj[cur'[k]] EXCEPT
                                         !.pollCount = raidObj'[cur'[k]].pollCount,
                                         !.lastAttempt = raidObj'[cur'[k]].lastAttempt]
               /\ live' = live /\ stats' = stats
       /\ (pc[k] = "desktop" /\ pc'[k] = "mobile")
            => raidObj' = raidObj /\ live' = live /\ stats' = stats
       /\ (pc[k] = "mobile" /\ pc'[k] = "loop" /\ cur[k] \in live)
            => /\ raidObj'[cur[k]] = [raidObj[cur[k]] EXCEPT
                                        !.backoffMs = raidObj'[cur[k]].backoffMs]
               /\ live' = live /\ stats' = stats]_vars

\* the poll of a live raid that carries a status message has just ended with
\* an error result
C10_Witness ==
  \E k \in Pollers :
    /\ pc[k] = "loop"
    /\ it[k] \in live
    /\ ~hist[it[k]].skipped
    /\ hist[it[k]].fails >= 1
    /\ raidObj[it[k]].lastAttempt = now
    /\ raidObj[it[k]].statusMessageId # NoMsg

\* ------------------------------------------------------------------------
\* C11: halfwayNotified and delayNotified of a raid never go back to false,
\* and a poll selects the halfway (delay) phrase set only when the flag was
\* false before and is true after: each set is selected in at most one poll.
\* ------------------------------------------------------------------------
C11_FlagsMonotonic ==
  [][/\ \A r \in RaidIds :
          r \in live' \cup {cur'[k] : k \in Pollers} =>
            /\ raidObj[r].halfwayNotified => raidObj'[r].halfwayNotified
            /\ raidObj[r].delayNotified => raidObj'[r].delayNotified
     /\ \A k \in Pollers :
          pc[k] \in {"desktop", "mobile"} /\ pc'[k] = "progDel" =>
            /\ loc'[k].phrases = "halfway" =>
                 ~raidObj[cur[k]].halfwayNotified /\ raidObj'[cur[k]].halfwayNotified
            /\ loc'[k].phrases = "delay" =>
                 ~raidObj[cur[k]].delayNotified /\ raidObj'[cur[k]].delayNotified]_vars

\* a poll of a raid that has both flags set meets the halfway and the delay
\* condition once more and selects the plain update phrases
C11_Witness ==
  \E k \in Pollers :
    /\ pc[k] = "progDel"
    /\ cur[k] \in live
    /\ raidObj[cur[k]].halfwayNotified
    /\ raidObj[cur[k]].delayNotified
    /\ HalfwayReached(loc[k].res, raidObj[cur[k]].targets)
    /\ DelayReached(raidObj[cur[k]].pollCount)
    /\ loc[k].phrases = "update"

C13_OneRaidPerGroup ==
  [][/\ \A r, q \in live' : r # q => raidObj'[r].chat # raidObj'[q].chat
     /\ Len(raidObj') > Len(raidObj) =>
          /\ \A r \in live : raidObj[r].chat # raidObj'[Len(raidObj')].chat
          /\ \A r \in live : r \in live' /\ raidObj'[r] = raidObj[r]
     /\ \A h \in cmds' \ cmds :
          h.kind = "refusal" => live' = live /\ raidObj' = raidObj]_vars

\* a /raid for a group whose raid has been polled and carries a status message
\* is being refused, while another group's raid runs too
C13_Witness ==
  \E h \in cmds :
    /\ h.kind = "refusal"
    /\ \E r \in live : /\ raidObj[r].chat = h.chat
                       /\ raidObj[r].pollCount >= 1
                       /\ raidObj[r].statusMessageId # NoMsg
    /\ \E q \in live : raidObj[q].chat # h.chat

\* ------------------------------------------------------------------------
\* C14: at most one session recovery started by a poll is in progress: a
\* LOGIN_WALL result that arrives while sessionRefreshing is false sets the
\* flag and starts one recovery, and a LOGIN_WALL result that arrives while
\* the flag is set starts none.
\* ------------------------------------------------------------------------
C14_OneRecovery ==
  [][/\ recovering' <= 1
     /\ sessionRefreshing' <=> recovering' = 1
     /\ \A k \in Pollers :
          pc[k] = "mobile" /\ pc'[k] = "loop" /\ loc'[k].err = "LOGIN_WALL" =>
            IF sessionRefreshing
              THEN recovering' = recovering /\ sessionRefreshing'
              ELSE recovering' = recovering + 1 /\ sessionRefreshing']_vars

\* a poll has just ended with LOGIN_WALL while the recovery that an earlier
\* LOGIN_WALL started is still running
C14_Witness ==
  \E k \in Pollers :
    /\ pc[k] = "loop"
    /\ loc[k].err = "LOGIN_WALL"
    /\ loc[k].busy
    /\ sessionRefreshing
    /\ recovering = 1

\* ------------------------------------------------------------------------
\* C15: when the desktop and the mobile attempt both fail, the error kind
\* fetchMetrics returns is the mobile attempt's, and the desktop attempt's
\* only if the mobile attempt gave none; a desktop LOGIN_WALL followed by a
\* mobile TIMEOUT is returned as TIMEOUT.
\* ------------------------------------------------------------------------
C15_FallbackErrorWins ==
  [][\A k \in Pollers :
       pc[k] = "mobile" /\ pc'[k] = "loop" =>
         /\ loc'[k].first = loc[k].first
         /\ loc'[k].err = IF loc'[k].second # "" THEN loc'[k].second ELSE loc[k].first
         /\ (loc[k].first = "LOGIN_WALL" /\ loc'[k].second = "TIMEOUT")
              => loc'[k].err = "TIMEOUT"]_vars

\* a desktop LOGIN_WALL and a mobile TIMEOUT were returned as TIMEOUT, and no
\* recovery was started
C15_Witness ==
  \E k \in Pollers :
    /\ pc[k] = "loop"
    /\ loc[k].first = "LOGIN_WALL"
    /\ loc[k].second = "TIMEOUT"
    /\ loc[k].err = "TIMEOUT"
    /\ ~sessionRefreshing
    /\ recovering = 0

\* ------------------------------------------------------------------------
\* C16: a poll that ends with an error result starts a session recovery
\* exactly when the error kind is LOGIN_WALL and no recovery is running; any
\* other kind leaves the flag as it is; whatever the kind, the backoff of the
\* raid is doubled (30000 at first, at most 600000).
\* ------------------------------------------------------------------------
C16_RecoveryOnLoginWallOnly ==
  [][\A k \in Pollers :
       pc[k] = "mobile" /\ pc'[k] = "loop" =>
         /\ recovering' \in {recovering, recovering + 1}
         /\ recovering' = recovering + 1
              <=> (loc'[k].err = "LOGIN_WALL" /\ ~sessionRefreshing)
         /\ loc'[k].err # "LOGIN_WALL" => sessionRefreshing' = sessionRefreshing
         /\ cur[k] \in live =>
              raidObj'[cur[k]].backoffMs =
                IF raidObj[cur[k]].backoffMs = 0
                  THEN 30000
                  ELSE Min(2 * raidObj[cur[k]].backoffMs, 600000)]_vars

\* a second failure in a row of a live raid, a TIMEOUT, has doubled its backoff
\* to 60000 and has started no recovery
C16_Witness ==
  \E k \in Pollers :
    /\ pc[k] = "loop"
    /\ loc[k].err = "TIMEOUT"
    /\ it[k] \in live
    /\ raidObj[it[k]].backoffMs = 60000
    /\ ~sessionRefreshing
    /\ recovering = 0

\* ------------------------------------------------------------------------
\* C17: an all-zero read is never a success: every result pollOneRaid treats
\* as metrics has a non-zero count, and a poll that ended with ZERO_READ is
\* back in the loop with the raid's failure counted and its backoff set.
\* ------------------------------------------------------------------------
C17_ZeroReadIsAFailure ==
  \A k \in Pollers :
    /\ pc[k] \in CompletionPcs \cup ProgressPcs =>
         loc[k].res.likes # 0 \/ loc[k].res.replies # 0 \/ loc[k].res.retweets # 0
    /\ loc[k].err = "ZERO_READ" =>
         /\ pc[k] = "loop"
         /\ it[k] \in live =>
              hist[it[k]].fails >= 1 /\ raidObj[it[k]].backoffMs >= 30000

\* a live raid was read as all zeros, backed off, retried once the backoff had
\* elapsed and read as all zeros again
C17_Witness ==
  \E k \in Pollers :
    /\ pc[k] = "loop"
    /\ loc[k].second = "ZERO_READ"
    /\ loc[k].err = "ZERO_READ"
    /\ it[k] \in live
    /\ raidObj[it[k]].pollCount >= 2
    /\ hist[it[k]].fails >= 2
    /\ raidObj[it[k]].backoffMs = 60000

\* ------------------------------------------------------------------------
\* C18: once fetchMetrics has settled, no page it opened is open.
\* newPage configures the page outside any try: when setUserAgent,
\* setExtraHTTPHeaders, setViewport or setRequestInterception rejects, the
\* page browser.newPage() returned is never closed.
\* ------------------------------------------------------------------------
C18_PagesReleased ==
  (\A k \in Pollers : pc[k] \notin {"desktop", "mobile"}) => pages = 0

\* ------------------------------------------------------------------------
\* C19: the error kind of every failed result of fetchMetrics is one of
\* LOGIN_WALL, ZERO_READ, TIMEOUT, ERROR.
\* attemptOnce returns e.message as the kind of an exception that is not a
\* TimeoutError, and ERROR only when the message is empty.
\* ------------------------------------------------------------------------
C19_ClosedErrorSet ==
  \A k \in Pollers :
    loc[k].err \in {"", "LOGIN_WALL", "ZERO_READ", "TIMEOUT", "ERROR"}

\* ------------------------------------------------------------------------
\* C20: the completion history is append-only: every step leaves the
\* sequence of each group as it is or appends one record at its end.
\* ------------------------------------------------------------------------
C20_HistoryAppendOnly ==
  [][\A g \in Chats :
       \/ stats'[g] = stats[g]
       \/ /\ Len(stats'[g]) = Len(stats[g]) + 1
          /\ SubSeq(stats'[g], 1, Len(stats[g])) = stats[g]]_vars

\* a group has two records of two raids, the second just appended, and the
\* leaderboard summary of the second completion is in progress
C20_Witness ==
  \E g \in Chats, k \in Pollers :
    /\ Len(stats[g]) = 2
    /\ stats[g][1].raid # stats[g][2].raid
    /\ pc[k] = "doneTrend"
    /\ stats[g][2].raid = cur[k]

C22_TopFifteen ==
  posted.yes =>
    LET s == posted.summary
        keys == {g \in DOMAIN stats : stats[g] # <<>>}
        shown == {s[i].id : i \in DOMAIN s}
    IN /\ Len(s) <= 15
       /\ Len(s) = Min(15, Cardinality(keys))
       /\ shown \subseteq keys
       /\ Cardinality(shown) = Len(s)
       /\ \A i \in DOMAIN s : FracEq(s[i].total, Total(stats[s[i].id], now))
       /\ \A i, j \in DOMAIN s : i < j => ~FracLess(s[i].total, s[j].total)
       /\ \A g \in keys \ shown : \A i \in DOMAIN s :
            ~FracLess(s[i].total, Total(stats[g], now))

\* sixteen groups have a history, the summary shows fifteen of them, the
\* first with a greater total than the last, and the group left out is not
\* the last of the document
C22_Witness ==
  /\ posted.yes
  /\ Cardinality({g \in DOMAIN stats : stats[g] # <<>>}) = 16
  /\ Len(posted.summary) = 15
  /\ FracLess(posted.summary[15].total, posted.summary[1].total)
  /\ \E i \in 1 .. 15 : posted.summary[i].id = 16

\* ------------------------------------------------------------------------
\* C23: in the total of a group a record of score s counts s when it is
\* younger than one hour, s / 2 when it is exactly one hour old, s / 4 when
\* it is exactly two hours old, and a legacy number s counts s.
\* ------------------------------------------------------------------------
C23_DecayedContribution ==
  posted.yes =>
    LET Age(e) == now - e.time
        InCase(e) == IsNumber(e) \/ Age(e) < 3600000 \/ Age(e) \in {3600000, 7200000}
        Claimed(e) ==
          IF IsNumber(e) THEN Frac(e.sum, 1)
          ELSE IF Age(e) < 3600000 THEN Frac(e.sum * 1000, e.dur)
          ELSE IF Age(e) = 3600000 THEN Frac(e.sum * 1000, e.dur * 2)
          ELSE Frac(e.sum * 1000, e.dur * 4)
        ClaimedTotal(h) ==
          IF Len(h) = 1 THEN Claimed(h[1]) ELSE FracAdd(Claimed(h[1]), Claimed(h[2]))
    IN \A i \in DOMAIN posted.summary :
         LET h == stats[posted.summary[i].id]
         IN (Len(h) <= 2 /\ \A j \in DOMAIN h : InCase(h[j])) =>
              FracEq(posted.summary[i].total, ClaimedTotal(h))

\* the summary shows a group with a record one hour old beside a legacy
\* number, a group with a record two hours old beside one a millisecond
\* short of an hour, and a group with a single record half an hour old
C23_Witness ==
  /\ posted.yes
  /\ \E i \in DOMAIN posted.summary :
       LET h == stats[posted.summary[i].id]
       IN Len(h) = 2 /\ ~IsNumber(h[1]) /\ now - h[1].time = 3600000 /\ IsNumber(h[2])
  /\ \E i \in DOMAIN posted.summary :
       LET h == stats[posted.summary[i].id]
       IN Len(h) = 2 /\ ~IsNumber(h[1]) /\ now - h[1].time = 7200000
                     /\ ~IsNumber(h[2]) /\ now - h[2].time = 3599999
  /\ \E i \in DOMAIN posted.summary :
       LET h == stats[posted.summary[i].id]
       IN Len(h) = 1 /\ ~IsNumber(h[1]) /\ now - h[1].time = 1800000

\* ------------------------------------------------------------------------
\* C24: the parser gives 1200 for "1.2K", 3400 for "3,4 mil", 0 for the empty
\* text, 45 for "45" and 2000000000 for "2B", and a number followed by a
\* locale word gives what it gives followed by the letter of that multiplier
\* (mil as k; mi, milhao and its accented forms as m).
\* The code replaces mi by m before it looks for mil, so that mil becomes ml
\* and multiplies by a million.
\* ------------------------------------------------------------------------
C24_SuffixesAndWords ==
  parsed.yes =>
    /\ raw = <<"1", ".", "2", "K">> => ~parsed.nan /\ NatOf(parsed.digits) = 1200
    /\ raw = <<"3", ",", "4", " ", "m", "i", "l">> => ~parsed.nan /\ NatOf(parsed.digits) = 3400
    /\ raw = <<>> => ~parsed.nan /\ NatOf(parsed.digits) = 0
    /\ raw = <<"4", "5">> => ~parsed.nan /\ NatOf(parsed.digits) = 45
    /\ raw = <<"2", "B">> => ~parsed.nan /\ NatOf(parsed.digits) = 2000000000
    /\ \A n \in TextNumbers, g \in TextGaps :
         /\ raw = n \o g \o <<"m", "i", "l">> =>
              parsed.nan = ParseCount(n \o g \o <<"k">>).nan
              /\ parsed.digits = ParseCount(n \o g \o <<"k">>).digits
         /\ raw \in {n \o g \o w : w \in {<<"m", "i">>, <<"m", "i", "l", "h", "a", "o">>,
                                           <<"m", "i", "l", "h", "a~", "o">>,
                                           <<"m", "i", "l", "h", "o~", "e", "s">>}} =>
              parsed.nan = ParseCount(n \o g \o <<"m">>).nan
              /\ parsed.digits = ParseCount(n \o g \o <<"m">>).digits

\* ------------------------------------------------------------------------
\* C25: for every text the parser returns a whole number that is not
\* negative, never a not-a-number value.
\* The code gives NaN when the leftmost run of digits and periods has no digit
\* before or right after its first period, as in "." or "v. 45".
\* ------------------------------------------------------------------------
C25_AlwaysWholeNumber ==
  parsed.yes =>
    /\ ~parsed.nan
    /\ parsed.digits # <<>>
    /\ \A i \in DOMAIN parsed.digits : IsDigit(parsed.digits[i])

\* ------------------------------------------------------------------------
\* C26: performLogin never settles by throwing, and neither does
\* ensureSessionLoggedIn: a failure is the value false.
\* In the code both open their page with newPage before their try, so that a
\* rejection of newPage leaves the function as a rejection.
\* ------------------------------------------------------------------------
C26_LoginNeverThrows ==
  /\ login.ok # "threw"
  /\ login.result # "threw"

\* ------------------------------------------------------------------------
\* C27: a call of scheduler is due exactly when no cycle of the scheduler is
\* in progress, never two; and every step that ends a cycle, by the end of
\* the loop or by an exception, sets one timer with a delay between
\* BASE - JITTER and BASE + JITTER.
\* ------------------------------------------------------------------------
C27_OneTimerAfterEveryCycle ==
  [][/\ timer' \in {0, 1}
     /\ timer' = 1 <=> pc'[Scheduler] = "idle"
     /\ (pc[Scheduler] # "idle" /\ pc'[Scheduler] = "idle") =>
          /\ timer = 0 /\ timer' = 1
          /\ 30000 - 5000 <= delay' /\ delay' <= 30000 + 5000]_vars

\* a timer is pending with the longest delay the draws give, after two polls
\* of a raid that gave no error result and sent no status message: a cycle
\* has ended by an exception
C27_Witness ==
  /\ timer = 1
  /\ delay = 30000 + 5000 - 1
  /\ pc[Scheduler] = "idle"
  /\ cmds = {}
  /\ \E r \in live : /\ raidObj[r].pollCount = 2
                       /\ raidObj[r].backoffMs = 0
                       /\ hist[r].fails = 0
                       /\ raidObj[r].statusMessageId = NoMsg

\* ------------------------------------------------------------------------
\* C28: a caller that had to queue in withSlot enters fn only when every
\* other caller still waiting queued after it.
\* ------------------------------------------------------------------------
C28_ReleasedInArrivalOrder ==
  [][\A c \in FnCallers :
       (cl[c] = "waiting" /\ cl'[c] = "running") =>
         \A d \in FnCallers \ {c} :
           cl[d] = "waiting" =>
             \E i, j \in DOMAIN arrivals :
               /\ arrivals[i] = FnResolver(c)
               /\ arrivals[j] = FnResolver(d)
               /\ i < j]_vars

\* two callers queued; both were woken before either went on; the one that
\* queued first runs fn while the other one still waits
C28_Witness ==
  /\ Len(arrivals) = 2
  /\ cl[arrivals[1].id] = "running"
  /\ cl[arrivals[2].id] = "waiting"
  /\ woken = <<arrivals[2]>>
  /\ inFlight = 1

\* ------------------------------------------------------------------------
\* C29: the poll loop awaits each raid's poll before it advances: at most one
\* fetchMetrics call of the loop is in flight at any instant, the iterator
\* stands still while one is, and no fetch is started for a RaidState that was
\* fetched before in the same cycle.
\* ------------------------------------------------------------------------
Fetching == {k \in Pollers : pc[k] \in FetchPcs}

C29_OneFetchAtATime ==
  [][/\ Cardinality(Fetching) <= 1
     /\ Cardinality(Fetching') <= 1
     /\ inFlight' <= 1
     /\ \A k \in Pollers :
          /\ (k \in Fetching /\ k \in Fetching') => it'[k] = it[k] /\ cur'[k] = cur[k]
          /\ (pc[k] = "loop" /\ k \in Fetching') => ~hist[cur'[k]].polled]_vars

\* the raid of the first group was fetched in this cycle and remains in the
\* Map; the fetch of the second group's raid is in flight
C29_Witness ==
  /\ live = {1, 2}
  /\ hist[1].polled
  /\ cur[Scheduler] = 2
  /\ pc[Scheduler] = "desktop"
  /\ inFlight = 1
  /\ pc[Trigger] = "declined"

\* ------------------------------------------------------------------------
\* C30: a call of fetchMetrics makes the desktop attempt first and the mobile
\* attempt only after the desktop attempt returned an error; it is at one
\* attempt at a time, no attempt follows the mobile one, and metrics the
\* desktop attempt returned end the call.
\* ------------------------------------------------------------------------
C30_DesktopThenMobileOnFailure ==
  [][\A k \in Pollers :
       /\ pc'[k] = "desktop" => pc[k] \in {"desktop", "loop", "slotWait"}
       /\ pc'[k] = "mobile" =>
            \/ pc[k] = "mobile" /\ loc'[k] = loc[k] /\ cur'[k] = cur[k]
            \/ pc[k] = "desktop" /\ loc'[k].first # "" /\ cur'[k] = cur[k]
       /\ pc[k] = "mobile" =>
            pc'[k] \in {"mobile", "loop", "idle", "doneDel", "progDel"}
       /\ (pc[k] = "desktop" /\ pc'[k] \in {"doneDel", "progDel"}) =>
            /\ loc'[k].res \in Reads
            /\ loc'[k].first = ""
            /\ inFlight' = inFlight - 1]_vars

\* both attempts of a call were made and failed, the desktop one first
C30_Witness ==
  /\ pc[Scheduler] = "loop"
  /\ loc[Scheduler].first = "TIMEOUT"
  /\ loc[Scheduler].second = "LOGIN_WALL"
  /\ loc[Scheduler].err = "LOGIN_WALL"
  /\ inFlight = 0

\* ------------------------------------------------------------------------
\* C31: on a successful poll that is not complete, the halfway phrases are
\* chosen exactly when halfwayNotified is false and the exact average of the
\* three ratios (a zero target counted as 1, no ratio capped) is at least 50%.
\* ------------------------------------------------------------------------
C31_HalfwayOnExactAverage ==
  [][\A k \in Pollers :
       (pc[k] \in {"desktop", "mobile"} /\ pc'[k] = "progDel") =>
         (loc'[k].phrases = "halfway" <=>
            /\ ~raidObj[cur[k]].halfwayNotified
            /\ HalfwayExact(loc'[k].res, raidObj[cur[k]].targets))]_vars

\* ------------------------------------------------------------------------
\* C32: on a successful poll that is not complete, the delay phrases are
\* chosen exactly when the halfway branch is not taken, delayNotified is false
\* and pollCount * POLL_MS > 300000; pollCount grows by one with every
\* attempt of the raid that is not skipped, and with nothing else.
\* ------------------------------------------------------------------------
C32_DelayOnPollCount ==
  [][/\ \A k \in Pollers :
          (pc[k] \in {"desktop", "mobile"} /\ pc'[k] = "progDel") =>
            (loc'[k].phrases = "delay" <=>
               /\ loc'[k].phrases # "halfway"
               /\ ~raidObj[cur[k]].delayNotified
               /\ raidObj[cur[k]].pollCount * POLL_MS > 300000)
     /\ \A r \in RaidIds :
          r \in live' \cup {cur'[k] : k \in Pollers} =>
            raidObj'[r].pollCount =
              raidObj[r].pollCount +
                (IF \E k \in Pollers : pc[k] = "loop" /\ pc'[k] \in FetchPcs /\ cur'[k] = r
                   THEN 1 ELSE 0)
     /\ \A k \in Pollers :
          (pc[k] = "loop" /\ pc'[k] \in FetchPcs) => ~Skips(raidObj[cur'[k]], now)]_vars

\* the delay phrases were chosen at the eleventh attempt, the first for which
\* pollCount * POLL_MS > 300000, and the attempt before it had failed (the
\* raid was in backoff): failed attempts count
C32_Witness ==
  \E k \in Pollers :
    /\ pc[k] = "progDel"
    /\ loc[k].phrases = "delay"
    /\ loc[k].was = MIN_BACKOFF
    /\ raidObj[cur[k]].pollCount = 11
    /\ raidObj[cur[k]].delayNotified
    /\ ~raidObj[cur[k]].halfwayNotified
    /\ ticks >= 1

\* ------------------------------------------------------------------------
\* C33: no started raid has two completion records in its group's history.
\* ------------------------------------------------------------------------
C33_OneRecordPerRaid ==
  \A g \in Chats :
    \A i, j \in DOMAIN stats[g] :
      i # j => stats[g][i].raid # stats[g][j].raid

\* ------------------------------------------------------------------------
\* C34: a cycle of pollLoop ends only when no raid of the Map is left to
\* visit: an exception raised while one raid is processed does not keep the
\* raids after it from being polled in the same cycle.
\* ------------------------------------------------------------------------
C34_CycleReachesEveryRaid ==
  [][\A k \in Pollers :
       (pc[k] \notin {"idle", "declined"} /\ pc'[k] = "idle") =>
         {r \in live : r > it[k]} = {}]_vars

\* ------------------------------------------------------------------------
\* C35: the step that ends a raid's completion removes no RaidState from the
\* Map but that raid's own.
\* ------------------------------------------------------------------------
C35_CompletionRemovesOwnState ==
  [][\A k \in Pollers :
       (pc[k] = "doneTrend" /\ pc'[k] = "loop") => live \ live' \subseteq {cur[k]}]_vars

\* ------------------------------------------------------------------------
\* C36: the statusMessageId of a raid in the Map is the id of the status
\* message sent last for that raid: it is never replaced by the id of a
\* message sent earlier, and it is never the id of a message sent for
\* another raid.
\* ------------------------------------------------------------------------
C36_StatusMessageIsLatest ==
  [][\A r \in live' :
       /\ raidObj'[r].statusMessageId # NoMsg => raidObj'[r].statusMessageId.raid = r
       /\ r \in live => raidObj'[r].statusMessageId.poll >= raidObj[r].statusMessageId.poll]_vars

\* ------------------------------------------------------------------------
\* C37: fetchMetrics never rejects: a poll that was not skipped and ends
\* without metrics gives back its slot, goes on with the loop, and leaves the
\* raid with a larger backoff (or the longest one).
\* ------------------------------------------------------------------------
C37_FailedPollBacksOff ==
  [][\A k \in Pollers :
       (/\ pc[k] \in {"desktop", "mobile"}
        /\ pc'[k] \notin {"desktop", "mobile", "doneDel", "progDel"})
       => /\ inFlight' = inFlight - 1
          /\ pc'[k] = "loop"
          /\ cur[k] \in live' =>
               /\ raidObj'[cur[k]].backoffMs >= MIN_BACKOFF
               /\ \/ raidObj'[cur[k]].backoffMs > raidObj[cur[k]].backoffMs
                  \/ raidObj'[cur[k]].backoffMs = MAX_BACKOFF]_vars

\* ------------------------------------------------------------------------
\* C38: when every fn settles in the end, every caller that waits for a slot
\* comes to run its fn; the settlement of fn, resolved or rejected, gives the
\* slot back; and when no caller waits or runs, inFlight is 0 and no
\* resolver is queued or pending.
\* ------------------------------------------------------------------------
C38_NoLostWakeup ==
  /\ \A c \in FnCallers : (cl[c] = "waiting") ~> (cl[c] = "running")
  /\ [][\A c \in FnCallers :
          (cl[c] = "running" /\ cl'[c] \in {"resolved", "rejected"}) =>
            inFlight' = inFlight - 1]_vars
  /\ []((\A c \in FnCallers : cl[c] \notin {"waiting", "running"}) =>
          (inFlight = 0 /\ queue = <<>> /\ woken = <<>>))

\* every caller has settled, two of them had to queue, one fn rejected
C38_Witness ==
  /\ \A c \in FnCallers : cl[c] \in {"resolved", "rejected"}
  /\ \E c \in FnCallers : cl[c] = "rejected"
  /\ Len(arrivals) = 2
  /\ inFlight = 0
  /\ queue = <<>>

\* ------------------------------------------------------------------------
\* C39: sessionRefreshing is cleared after every recovery, whether
\* ensureSessionLoggedIn returned true, returned false or threw; it is set
\* only while a recovery is pending, so a LOGIN_WALL failure after a finished
\* recovery starts a new one.  (A failed launch of the browser ends the
\* process.)
\* ------------------------------------------------------------------------
C39_GuardCleared ==
  /\ sessionRefreshing ~> (~sessionRefreshing \/ login.pc = "exit")
  /\ [](login.pc = "settled" => login.result \in {"true", "false", "threw"})
  /\ []((recovering = 0) => StartsRecovery("LOGIN_WALL", sessionRefreshing))
  /\ [][(sessionRefreshing /\ ~sessionRefreshing') => login.pc = "settled"]_vars

\* a recovery that ended with a rejection of ensureSessionLoggedIn, the flag
\* cleared after it
C39_Witness ==
  /\ login.pc = "settled"
  /\ login.result = "threw"
  /\ ~sessionRefreshing
  /\ recovering = 0

====
